---- MODULE Spec2Model ----
(***************************************************************************)
(* Host-request protocol of the fog orchestrator (server/ryu_apps/         *)
(* protocol.py) together with the parts of the topology, of the state      *)
(* updater and of the selection engine that the protocol reads and writes. *)
(*                                                                         *)
(* Scheduling.  The controller runs on cooperative green threads           *)
(* (ryu.lib.hub): a packet-in handler runs to its end without interleaving *)
(* and a placement task runs without interleaving from one ev.wait() to    *)
(* the next.  An exception raised in a handler or in a task ends that      *)
(* handler or task and is absorbed by the hub; what was written before the *)
(* raise stays written.                                                    *)
(*                                                                         *)
(* Call binding.  protocol.py hands NodeSelector.select the node           *)
(* collection (self._topology.get_nodes().values()) and reads the answer   *)
(* of PathSelector.select as a pair (paths, weights) keyed by target;      *)
(* the model applies the selection predicates of selection.py to the       *)
(* collection the caller passes and gives the caller the shape it reads.   *)
(***************************************************************************)
EXTENDS Integers, Sequences, FiniteSets, TLC

\* ----------------------------------------------------------------- bounds
MaxCalls == 3       \* calls made on a topology after it is built
MaxNow == 4         \* last reading of the clock the state updater sees
MaxFrames == 3      \* protocol frames delivered by the data plane in a run
MaxTasks == 2       \* placement tasks alive at the same time
MaxTime == 2        \* readings of the wall clock that differ
MaxAttempt == 2     \* attempt numbers carried by frames
MaxEnv == 1         \* topology changes (node, link, switch removal) in a run
MaxRetries == 2     \* largest configured PROTOCOL_RETRIES
LiveFrames == 2     \* frames delivered in the runs checked for progress

\* ------------------------------------------------------ program constants
HREQ == 1
HRES == 2
RREQ == 3
RRES == 4
RACK == 5
RCAN == 6
MONITOR_PERIOD == 1
MONITOR_SAMPLES == 2

None == "None"

\* ------------------------------------------------------------ the network
Src == "s"
Sw == "sw1"
Hosts == {"h1", "h2"}
NodeIds == {Src, Sw} \cup Hosts
\* iteration order of the graph's nodes (insertion order)
NodeOrder == <<"s", "sw1", "h1", "h2">>
\* the one request key (src_ip, req_id) the model follows
ReqKeys == {"k1"}
AttNos == 1..MaxAttempt
Senders == Hosts

\* cos_dict: the classes of service loaded from the database
CosIds == {1, 2}
cos_dict ==
    [c \in CosIds |->
        IF c = 1 THEN [min_cpu |-> 2, min_ram |-> 2, min_disk |-> 1,
                       max_delay |-> 2, max_jitter |-> 2,
                       max_loss_rate |-> 1, min_bandwidth |-> 3]
                 ELSE [min_cpu |-> 1, min_ram |-> 1, min_disk |-> 1,
                       max_delay |-> 3, max_jitter |-> 3,
                       max_loss_rate |-> 2, min_bandwidth |-> 1]]

\* the virtual endpoint of the orchestrator and the default address
DECOY_MAC == "decoy_mac"
DECOY_IP == "decoy_ip"
DEFAULT_IP == "default_ip"

\* a packet-in as Ether(ev.msg.data) dissects it: its layers, the addresses of
\* its Ether and IP layers, the req_id of its MyProtocol layer
GoodPacket ==
    [layers |-> {"Ether", "IP", "MyProtocol"}, eth_dst |-> DECOY_MAC,
     ip_src |-> "ip_s", ip_dst |-> DECOY_IP, req_id |-> "k1"]

\* the well-formed packet and the packets that differ from it in one respect
Packets ==
    {GoodPacket,
     [GoodPacket EXCEPT !.layers = {"Ether", "IP", "MyProtocol", "Padding"}],
     [GoodPacket EXCEPT !.layers = {"Ether", "IP"}, !.req_id = ""],
     [GoodPacket EXCEPT !.eth_dst = "mac_x"],
     [GoodPacket EXCEPT !.ip_dst = "ip_x"],
     [GoodPacket EXCEPT !.ip_src = DECOY_IP],
     [GoodPacket EXCEPT !.ip_src = DEFAULT_IP],
     [GoodPacket EXCEPT !.req_id = ""]}

VARIABLES
    nodes,        \* graph nodes: id -> Node (specs, state, threshold, main_interface)
    links,        \* graph edges: set of <<src_id, dst_id>>
    interfaces,   \* Topology._interfaces: mac -> [node_id, dpid]
    dps,          \* Switches.dps: connected datapaths
    requests,     \* Protocol.requests: key -> Request
    events,       \* _events: <<key, mac>> -> task holding the Event, or None
    responses,    \* _responses: <<key, mac>> -> state of the stored reply, or None
    tasks,        \* placement tasks (_select_host green threads)
    sspaths,      \* SimpleSwitchSP13._paths: pairs marked orchestrator-managed
    flows,        \* flow rules sent to the switches: [dp, src, dst]
    now,          \* wall clock
    orchPaths,    \* not STP_ENABLED and ORCHESTRATOR_PATHS
    PROTO_RETRIES,\* int(getenv('PROTOCOL_RETRIES')), read once at import
    nframes,      \* frames delivered so far
    nenv,         \* topology changes so far
    hist,         \* the last step: what was handled and what it emitted
    obs,          \* history: the task of the current run, the links at
                  \* the last promotion, the RACK and HRES frames sent,
                  \* whether a run gave up since the last accepted HREQ and
                  \* the runs during which an RRES was promoted
    topo,         \* the Topology object: graph, reverse indices, specs
    impl,         \* which Topology class it is: model.py or ryu_apps
    tstate,       \* the TopologyState object: update windows, port samples
    last,         \* the last call on the topology and what it returned
    ncalls,       \* calls on the topology so far
    clients,      \* udp_server.clients: node id -> time of its last heartbeat
    switches,     \* Topology._switches.dps: the datapath registry
    heard,        \* history: node id -> time of its registration or of its
                  \* last heartbeat, whichever is later
    due,          \* when the sleeping loops of the heartbeat wake up next
    host_ports,   \* Topology._host_ports: host mac -> switch port it is on
    waiters,      \* the _set_main_interface threads: mac -> retries left
    net,          \* SimpleSwitchSP13._net: nodes and edges with their ports
    outs,         \* SimpleSwitchSP13._outs: <<src, dst>> -> dpid -> hop
    db,           \* the database: the rows of the request, attempt,
                  \* response and path tables
    retrying      \* the port-add and link-add handlers: event -> where its
                  \* handler stands, retry, the time it wakes up and,
                  \* for the properties, the times of its tries

\* the variables of the topology store and of the state updater
topoVars == <<topo, impl, tstate, last, ncalls>>

\* the variables of the heartbeat registry
appVars == <<clients, switches, heard, due, host_ports, waiters, net, outs,
            db, retrying>>

\* the variables of the host-request protocol, the clock excepted
protoVars == <<nodes, links, interfaces, dps, requests, events, responses,
               tasks, sspaths, flows, orchPaths, PROTO_RETRIES, nframes, nenv,
               hist, obs>>

vars == <<nodes, links, interfaces, dps, requests, events, responses, tasks,
          sspaths, flows, now, orchPaths, PROTO_RETRIES, nframes, nenv, hist,
          obs, topo, impl, tstate, last, ncalls, clients, switches, heard,
          due, host_ports, waiters, net, outs, db,
                   retrying>>

Keys == ReqKeys \X (NodeIds \ {Sw})

\* ---------------------------------------------------------------- records
Node(st, th, count, cfree, mtot, mfree, dtot, dfree, main) ==
    [state |-> st, threshold |-> th,
     cpu_count |-> count, cpu_free |-> cfree,
     memory_total |-> mtot, memory_free |-> mfree,
     disk_total |-> dtot, disk_free |-> dfree,
     timestamp |-> 0, main_interface |-> main]

\* Attempt(req_id, ip_src, att_no): no timestamp and no path yet
Attempt == [rres_at |-> 0, path |-> <<>>]

\* Request(req_id, src, None, None, state=HREQ)
Request(src) ==
    [src |-> src, cos |-> 0, state |-> HREQ, host |-> None,
     host_mac_ip |-> None, path |-> <<>>, attempts |-> <<>>]

Frame(type, dst, att, host) ==
    [type |-> type, dst |-> dst, att |-> att, host |-> host]

\* a placement task: where it stands (pc), the arguments of _select_host,
\* its locals (hosts, the candidates, the loop index i, rreq_rt, host_mac),
\* whether its Event is set, and two counters kept for the properties: the
\* RREQs sent to the current candidate and whether every candidate passed so
\* far let all its sends time out or replied RCAN
FreeTask ==
    [pc |-> "free", key |-> "k1", att |-> 0, src |-> None, hosts |-> <<>>,
     cands |-> <<>>, i |-> 0, rt |-> 0, mac |-> None, woken |-> FALSE,
     nsent |-> 0, exh |-> TRUE]

\* the record of a step: the frame handled (kind, sender, attempt_no,
\* cos_id), the Request state before it, whether it promoted a host, the task
\* that ran and whether it reached the end of its enumeration, the frames
\* out, and the packet that carried the frame (well-formed unless said)
Idle(kind) == [kind |-> kind, mac |-> None, att |-> 0, cos |-> 0, pre |-> 0,
               promoted |-> FALSE, t |-> 0, fin |-> FALSE, out |-> <<>>,
               pkt |-> GoodPacket]

\* --------------------------------------------------------------- topology
\* Topology.get_by_mac(mac, 'node_id')
get_by_mac_node(mac) ==
    IF mac \in DOMAIN interfaces THEN interfaces[mac].node_id ELSE None

\* Topology.get_by_mac(mac, 'dpid') (and 'port_no', learnt together with it)
get_by_mac_dpid(mac) ==
    IF mac \in DOMAIN interfaces THEN interfaces[mac].dpid ELSE None

\* Topology.get_node(id) is not None
has_node(id) == id \in DOMAIN nodes

\* Topology.get_link(src, dst) is not None
has_link(a, b) == <<a, b>> \in links

\* mac of the Interface at the far end of a link (switch ports carry none)
port_mac(n) == IF n = Sw THEN None ELSE n

\* Protocol._sendp raises KeyError unless the datapath of eth_dst is connected
can_sendp(mac) == get_by_mac_dpid(mac) \in dps

\* -------------------------------------------------------- selection engine
\* _SimpleNodeSelection.select._check_resources(node, req)
check_resources(n, src, c) ==
    /\ n # src
    /\ nodes[n].state = TRUE
    /\ nodes[n].cpu_free - cos_dict[c].min_cpu
          >= nodes[n].cpu_count * nodes[n].threshold
    /\ nodes[n].memory_free - cos_dict[c].min_ram
          >= nodes[n].memory_total * nodes[n].threshold
    /\ nodes[n].disk_free - cos_dict[c].min_disk
          >= nodes[n].disk_total * nodes[n].threshold

\* NodeSelector(NODE_ALGO).select(nodes, req): strategy ALL, graph order
SimpleNodeSelection(src, c) ==
    LET ok(n) == has_node(n) /\ check_resources(n, src, c)
    IN SelectSeq(NodeOrder, ok)

\* the nodes that n hops or fewer lead to from a
RECURSIVE Within(_, _)
Within(a, n) ==
    IF n = 0 THEN {a}
    ELSE Within(a, n - 1)
         \cup {y \in NodeIds : \E x \in Within(a, n - 1) : has_link(x, y)}

\* lengths[b] of single_source_dijkstra(graph, a) with unit weights
Dist(a, b) ==
    CHOOSE n \in 0..(Cardinality(NodeIds) - 1) :
        /\ b \in Within(a, n)
        /\ \A m \in 0..(n - 1) : b \notin Within(a, m)

\* "targ_id in lengths"
Reachable(a, b) == b \in Within(a, Cardinality(NodeIds) - 1)

\* paths[b] of single_source_dijkstra(graph, a): a shortest path to b
RECURSIVE DijkstraPath(_, _)
DijkstraPath(a, b) ==
    IF a = b THEN <<a>>
    ELSE LET prev == CHOOSE x \in NodeIds :
                        has_link(x, b) /\ x \in Within(a, Dist(a, b) - 1)
         IN Append(DijkstraPath(a, prev), b)

\* e put behind the entries of ret that weigh no more than e
InsertByWeight(ret, e) ==
    LET pos == Cardinality({y \in 1..Len(ret) :
                               Len(ret[y].path) <= Len(e.path)})
    IN SubSeq(ret, 1, pos) \o <<e>> \o SubSeq(ret, pos + 1, Len(ret))

\* PathSelector(PATH_ALGO).select(graph, hosts, req, HOP) followed by the
\* protocol's sorted(w_idx, key=weight): one entry per reachable target,
\* ascending hop count, targets of equal weight in the order of hosts
RECURSIVE PathsFrom(_, _, _, _)
PathsFrom(src, hosts, x, ret) ==
    IF x > Len(hosts) THEN ret
    ELSE IF ~Reachable(src, hosts[x]) THEN PathsFrom(src, hosts, x + 1, ret)
    ELSE PathsFrom(src, hosts, x + 1,
                   InsertByWeight(ret, [node |-> hosts[x], main |-> None,
                                        path |-> DijkstraPath(src, hosts[x])]))

PathCandidates(src, hosts) == PathsFrom(src, hosts, 1, <<>>)

\* the hosts loop walks the selected nodes and reads each main_interface
HostCandidates(hosts) ==
    [x \in 1..Len(hosts) |->
        [node |-> hosts[x], main |-> nodes[hosts[x]].main_interface,
         path |-> <<>>]]

\* ------------------------------------------------------ the Topology store
\* The repository holds two Topology classes: model.py (class Topology) and
\* ryu_apps/topology.py (the Ryu application). impl says which one is in use.
\* Node ids, port names, port numbers, MACs and IPs are strings; a dict that
\* is keyed by names and by numbers holds both kinds of keys.
TNodes == {"a", "b", "c"}
PortNames == {"p1", "p2"}
PortNum == [p1 |-> "1", p2 |-> "2"]
MacOf == [a |-> [p1 |-> "mac_a1", p2 |-> "mac_a2"],
          b |-> [p1 |-> "mac_b1", p2 |-> "mac_b2"],
          c |-> [p1 |-> "mac_c1", p2 |-> "mac_c2"]]
IpOf == [a |-> [p1 |-> "ip_a1", p2 |-> "ip_a2"],
         b |-> [p1 |-> "ip_b1", p2 |-> "ip_b2"],
         c |-> [p1 |-> "ip_c1", p2 |-> "ip_c2"]]
PortNums == {PortNum[p] : p \in PortNames}
PortRefs == PortNames \cup PortNums
Macs == {MacOf[n][p] : n \in TNodes, p \in PortNames}
Ips == {IpOf[n][p] : n \in TNodes, p \in PortNames}

\* d.get(k, default) and d.pop(k, None) of a Python dict
Get(d, k, default) == IF k \in DOMAIN d THEN d[k] ELSE default

Pop(d, k) == [x \in DOMAIN d \ {k} |-> d[x]]

Put(d, k, v) == [x \in DOMAIN d \cup {k} |-> IF x = k THEN v ELSE d[x]]

\* InterfaceSpecs(), NodeSpecs(), LinkSpecs() built at the current time; the
\* infinite default of delay and jitter is written Inf
Inf == 99

InterfaceSpecs ==
    [capacity |-> 0, bandwidth_up |-> 0, bandwidth_down |-> 0,
     tx_packets |-> 0, rx_packets |-> 0, timestamp |-> now]

NodeSpecs ==
    [cpu_count |-> 0, cpu_free |-> 0, memory_total |-> 0, memory_free |-> 0,
     disk_total |-> 0, disk_free |-> 0, timestamp |-> now]

LinkSpecs ==
    [capacity |-> 0, bandwidth |-> 0, delay |-> Inf, jitter |-> Inf,
     loss_rate |-> 1, timestamp |-> now]

Interface(name, num, mac, ipv4) ==
    [name |-> name, num |-> num, mac |-> mac, ipv4 |-> ipv4,
     specs |-> InterfaceSpecs]

\* a Link holds its two Interface objects: each is kept here as the name
\* and the number it was built with, which no setter changes; its specs are
\* read from the node it is registered on
Link(src_id, dst_id, src_port, dst_port, state) ==
    [src_id |-> src_id, dst_id |-> dst_id,
     src_port |-> [name |-> src_port.name, num |-> src_port.num],
     dst_port |-> [name |-> dst_port.name, num |-> dst_port.num],
     state |-> state, specs |-> LinkSpecs]

\* Topology.__init__: an empty graph and empty indices
Topology ==
    [nodes |-> <<>>, edges |-> <<>>, src_port_to_dst |-> <<>>,
     num_to_name |-> <<>>, interfaces |-> <<>>, ips |-> <<>>]

\* every call returns the topology it leaves and its return value; a call
\* of the state updater also returns the TopologyState it leaves
Ret(g, value) == [topo |-> g, ret |-> value]

Res(g, st, value) ==
    [topo |-> g, state |-> st, ret |-> value, raised |-> FALSE]

\* an exception left the call: what was written before it stays
Raised(g, st) == [topo |-> g, state |-> st, ret |-> None, raised |-> TRUE]

\* the periodic loops TopologyState.__init__ spawns that read the monitors
Loops == {"bandwidth_loss", "link_state"}

\* TopologyState.__init__: no window open, no sample saved, every loop
\* spawned
TopologyState ==
    [block_app_update |-> <<>>, port_stats |-> <<>>, iperf3_update |-> <<>>,
     loops |-> Loops]

Topology_get_node(g, id) == IF id \in DOMAIN g.nodes THEN id ELSE None

\* add_node: a new Node object takes the place of the one of the same id;
\* the edges of the graph stay
Topology_add_node(g, id) ==
    Ret([g EXCEPT !.nodes = Put(@, id, [interfaces |-> <<>>,
                                        main_interface |-> <<>>,
                                        specs |-> NodeSpecs])],
        IF impl = "model" THEN TRUE ELSE None)

\* networkx remove_node: the node and every edge at it
remove_node(g, id) ==
    [g EXCEPT !.nodes = Pop(@, id),
              !.edges = [e \in {x \in DOMAIN g.edges : x[1] # id /\ x[2] # id}
                           |-> g.edges[e]]]

\* delete_node: only the application forgets the MACs of the node's
\* interfaces; neither class touches the IP index or the number index
Topology_delete_node(g, id) ==
    LET known == id \in DOMAIN g.nodes
        macs == IF known
                THEN {g.nodes[id].interfaces[p].mac :
                         p \in DOMAIN g.nodes[id].interfaces}
                ELSE {}
        g1 == IF impl = "app"
              THEN [g EXCEPT !.interfaces =
                       [m \in DOMAIN g.interfaces \ macs |-> g.interfaces[m]]]
              ELSE g
        g2 == IF known THEN remove_node(g1, id) ELSE g1
    IN Ret([g2 EXCEPT !.src_port_to_dst = Pop(@, id)], None)

\* get_interface(node_id, ref): ref is a port name or a port number; the
\* result is the name the Interface is registered under, or None
Topology_get_interface(g, node_id, ref) ==
    IF node_id \in DOMAIN g.nodes
    THEN LET name == Get(Get(g.num_to_name, node_id, <<>>), ref, ref)
         IN IF name \in DOMAIN g.nodes[node_id].interfaces
            THEN name ELSE None
    ELSE None

\* add_interface: False for an unknown node; the IP index is kept by
\* model.py only
Topology_add_interface(g, node_id, name, num, mac, ipv4) ==
    IF node_id \in DOMAIN g.nodes
    THEN LET g1 == [g EXCEPT
                      !.nodes[node_id].interfaces =
                          Put(@, name, Interface(name, num, mac, ipv4)),
                      !.num_to_name =
                          Put(@, node_id,
                              Put(Get(g.num_to_name, node_id, <<>>),
                                  num, name))]
             g2 == IF mac # None
                   THEN [g1 EXCEPT !.interfaces =
                           Put(@, mac, [node_id |-> node_id, name |-> name,
                                        ipv4 |-> ipv4]
                                       @@ Get(g.interfaces, mac, <<>>))]
                   ELSE g1
             g3 == IF ipv4 # None /\ impl = "model"
                   THEN [g2 EXCEPT !.ips =
                           Put(@, ipv4, [node_id |-> node_id, name |-> name,
                                         mac |-> mac])]
                   ELSE g2
         IN Ret(g3, TRUE)
    ELSE Ret(g, FALSE)

\* get_dst_at_port(src_id, ref): the node behind the port, if it is a node
Topology_get_dst_at_port(g, src_id, ref) ==
    Topology_get_node(g,
        Get(Get(g.src_port_to_dst, src_id, <<>>), ref, None))

Topology_get_link(g, src_id, dst_id) ==
    IF <<src_id, dst_id>> \in DOMAIN g.edges
    THEN <<src_id, dst_id>> ELSE None

Topology_get_link_at_port(g, src_id, ref) ==
    LET dst == Topology_get_dst_at_port(g, src_id, ref)
    IN IF dst # None THEN Topology_get_link(g, src_id, dst) ELSE None

\* get_by_mac(mac, 'node_id') and get_by_ip(ip, 'node_id')
Topology_get_by_mac(g, mac) ==
    IF mac \in DOMAIN g.interfaces THEN g.interfaces[mac].node_id ELSE None

Topology_get_by_ip(g, ip) ==
    IF ip \in DOMAIN g.ips THEN g.ips[ip].node_id ELSE None

\* delete_link: the edge goes, and with it the whole port index of src_id
Topology_delete_link(g, src_id, dst_id) ==
    Ret([g EXCEPT !.edges = Pop(@, <<src_id, dst_id>>),
                 !.src_port_to_dst = Pop(@, src_id)], None)

\* delete_interface: the Interface leaves its node; the link found through
\* the port index is deleted in both directions
Topology_delete_interface(g, node_id, name) ==
    IF node_id \in DOMAIN g.nodes
    THEN LET g1 == [g EXCEPT !.nodes[node_id].interfaces = Pop(@, name)]
             dst == Topology_get_dst_at_port(g1, node_id, name)
         IN IF dst # None
            THEN Ret(Topology_delete_link(
                         Topology_delete_link(g1, node_id, dst).topo,
                         dst, node_id).topo, None)
            ELSE Ret(g1, None)
    ELSE Ret(g, None)

\* an add_link that looks up the source port only
add_link_srcOnly(g, src_id, dst_id, src_port_name, dst_port_name, state) ==
    LET src_port == Topology_get_interface(g, src_id, src_port_name)
    IN IF src_port # None
       THEN LET idx == Get(g.src_port_to_dst, src_id, <<>>)
                num == g.nodes[src_id].interfaces[src_port].num
            IN Ret([g EXCEPT
                      !.edges = Put(@, <<src_id, dst_id>>,
                                    Link(src_id, dst_id,
                                         g.nodes[src_id].interfaces[src_port],
                                         [name |-> dst_port_name,
                                          num |-> None],
                                         state)),
                      !.src_port_to_dst =
                          Put(@, src_id,
                              Put(Put(idx, src_port_name, dst_id),
                                  num, dst_id))], TRUE)
       ELSE Ret(g, FALSE)

\* add_link: False when a node or a port is unknown; the new Link takes the
\* place of an older one between the same nodes; the port index of the
\* source gets the port under the name given and under its number
Topology_add_link(g, src_id, dst_id, src_port_name, dst_port_name, state) ==
    LET src_port == Topology_get_interface(g, src_id, src_port_name)
        dst_port == Topology_get_interface(g, dst_id, dst_port_name)
    IN IF src_port # None /\ dst_port # None
       THEN LET idx == Get(g.src_port_to_dst, src_id, <<>>)
                num == g.nodes[src_id].interfaces[src_port].num
            IN Ret([g EXCEPT
                      !.edges = Put(@, <<src_id, dst_id>>,
                                    Link(src_id, dst_id,
                                         g.nodes[src_id].interfaces[src_port],
                                         g.nodes[dst_id].interfaces[dst_port],
                                         state)),
                      !.src_port_to_dst =
                          Put(@, src_id,
                              Put(Put(idx, src_port_name, dst_id),
                                  num, dst_id))], TRUE)
       ELSE Ret(g, FALSE)

\* ------------------------------------------------- calls on the Topology
\* One action per method, called with any arguments: by the REST API, by the
\* Ryu event handlers, by the state updater.
NoCall == [op |-> "none", args |-> <<>>, ret |-> None, raised |-> FALSE]

Called(op, args, r) ==
    /\ topo' = r.topo
    /\ tstate' = IF "state" \in DOMAIN r THEN r.state ELSE tstate
    /\ last' = [op |-> op, args |-> args, ret |-> r.ret,
                 raised |-> "raised" \in DOMAIN r /\ r.raised]
    /\ ncalls' = ncalls + 1
    /\ UNCHANGED <<impl, now, protoVars, appVars>>

Call_add_node(id) ==
    /\ ncalls < MaxCalls
    /\ Called("add_node", <<id>>, Topology_add_node(topo, id))

Call_delete_node(id) ==
    /\ ncalls < MaxCalls
    /\ Called("delete_node", <<id>>, Topology_delete_node(topo, id))

Call_add_interface(id, name, addressed) ==
    /\ ncalls < MaxCalls
    /\ Called("add_interface", <<id, name>>,
              Topology_add_interface(topo, id, name, PortNum[name],
                  IF addressed THEN MacOf[id][name] ELSE None,
                  IF addressed THEN IpOf[id][name] ELSE None))

Call_delete_interface(id, name) ==
    /\ ncalls < MaxCalls
    /\ Called("delete_interface", <<id, name>>,
           Topology_delete_interface(topo, id, name))

Call_add_link(src_id, dst_id, src_port_name, dst_port_name) ==
    /\ ncalls < MaxCalls
    /\ Called("add_link", <<src_id, dst_id, src_port_name, dst_port_name>>,
           Topology_add_link(topo, src_id, dst_id, src_port_name,
                             dst_port_name, TRUE))

Call_delete_link(src_id, dst_id) ==
    /\ ncalls < MaxCalls
    /\ Called("delete_link", <<src_id, dst_id>>,
           Topology_delete_link(topo, src_id, dst_id))

\* ------------------------------------------------------------------- Init
ProtocolInit ==
    /\ nodes = [n \in NodeIds |->
                  IF n = Sw THEN Node(TRUE, 1, 0, 0, 0, 0, 0, 0, None)
                  ELSE IF n = "h2" THEN Node(TRUE, 0, 2, 1, 4, 4, 2, 2, n)
                  ELSE Node(TRUE, 0, 2, 2, 4, 4, 2, 2, n)]
    /\ links = {<<Sw, n>> : n \in NodeIds \ {Sw}}
                 \cup {<<n, Sw>> : n \in NodeIds \ {Sw}}
    /\ interfaces = [m \in NodeIds \ {Sw} |-> [node_id |-> m, dpid |-> Sw]]
    /\ dps = {Sw}
    /\ requests = <<>>
    /\ events = [k \in Keys |-> 0]
    /\ responses = [k \in Keys |-> 0]
    /\ tasks = [t \in 1..MaxTasks |-> FreeTask]
    /\ sspaths = {}
    /\ flows = {}
    /\ now = 1
    /\ orchPaths \in BOOLEAN
    /\ PROTO_RETRIES \in 1..MaxRetries
    /\ nframes = 0
    /\ nenv = 0
    /\ hist = Idle("init")
    /\ obs = [run |-> 0, linksAt |-> {}, sent |-> {}, gaveUp |-> FALSE,
              stale |-> {}]

\* the protocol runs over the application's Topology, here left empty
\* the heartbeat registry before serve(): no client, no datapath
BeatIdle ==
    /\ clients = <<>>
    /\ switches = {}
    /\ heard = <<>>
    /\ due = [purge |-> 0, check |-> 0]

\* no host seen on a switch port, no thread waiting for one
\* no row in any table of the database
NoRows == [requests |-> {}, attempts |-> {}, responses |-> {}, paths |-> {}]

HostsIdle ==
    /\ host_ports = <<>>
    /\ waiters = <<>>
    /\ db = NoRows
    /\ retrying = <<>>

\* SimpleSwitchSP13.__init__: empty graph, no path kept
ForwarderIdle ==
    /\ net = [nodes |-> {}, edges |-> <<>>]
    /\ outs = <<>>

AppsIdle == BeatIdle /\ HostsIdle /\ ForwarderIdle

Init ==
    /\ ProtocolInit
    /\ impl = "app"
    /\ topo = Topology
    /\ tstate = TopologyState
    /\ last = NoCall
    /\ ncalls = 0
    /\ AppsIdle

\* ---------------------------------------------------------- state updater
\* What the setters of model.py leave in a specs object: set_timestamp
\* stores the given timestamp, or the current time for 0; every set_<field>
\* writes its field and then calls set_timestamp() with no argument, which
\* stores the current time. The updaters call set_timestamp(timestamp) first
\* and the setters of the fields that are not None after it.
set_timestamp(obj, timestamp) ==
    [obj EXCEPT !.timestamp = IF timestamp # 0 THEN timestamp ELSE now]

set_specs(obj, upd, timestamp) ==
    [f \in DOMAIN obj |->
        IF f \in DOMAIN upd THEN upd[f]
        ELSE IF f = "timestamp"
             THEN (IF DOMAIN upd # {} THEN now
                   ELSE set_timestamp(obj, timestamp).timestamp)
             ELSE obj[f]]

\* TopologyState.update_node_specs(id, ..., timestamp): the fields of upd are
\* written, the others are left alone
update_node_specs(id, upd, timestamp) ==
    IF has_node(id)
    THEN [nodes EXCEPT ![id] = set_specs(nodes[id], upd, timestamp)]
    ELSE nodes

\* a debit that forgets memory and disk
Debit_cpuOnly(host_id, c) ==
    update_node_specs(host_id,
        [cpu_free |-> nodes[host_id].cpu_free - cos_dict[c].min_cpu], 0)

\* the speculative debit of the chosen host (protocol.py, regular RRES)
Debit(host_id, c) ==
    update_node_specs(host_id,
        [cpu_free |-> nodes[host_id].cpu_free - cos_dict[c].min_cpu,
         memory_free |-> nodes[host_id].memory_free - cos_dict[c].min_ram,
         disk_free |-> nodes[host_id].disk_free - cos_dict[c].min_disk], 0)

\* ------------------------------------------------------------ rendezvous
\* _events[_key].set(): wakes the task whose current Event is stored there
SetEvent(ts, key) ==
    LET t == events[key]
    IN IF t # 0 /\ ts[t].pc = "wait" /\ <<ts[t].key, ts[t].mac>> = key
       THEN [ts EXCEPT ![t].woken = TRUE]
       ELSE ts

\* ------------------------------------------------- packet-in: HREQ frames
\* EventOFPPacketIn comes from a datapath in MAIN_DISPATCHER, the only switch
packet_in == Sw \in dps

\* a gate that does not look at the layers
is_request_anyLayers(req) ==
    /\ {"Ether", "IP", "MyProtocol"} \subseteq req.layers
    /\ req.ip_src # DECOY_IP
    /\ req.ip_src # DEFAULT_IP
    /\ req.eth_dst = DECOY_MAC
    /\ req.ip_dst = DECOY_IP
    /\ req.req_id # ""

\* Protocol._is_request(req)
is_request(req) ==
    /\ {"Ether", "IP", "MyProtocol"} \subseteq req.layers
    /\ req.layers \subseteq {"Ether", "IP", "MyProtocol"}
    /\ req.ip_src # DECOY_IP
    /\ req.ip_src # DEFAULT_IP
    /\ req.eth_dst = DECOY_MAC
    /\ req.ip_dst = DECOY_IP
    /\ req.req_id # ""

\* Protocol._protocol_handler for a packet that _is_request turns down
DropPacket(req) ==
    /\ nframes < MaxFrames
    /\ packet_in
    /\ ~is_request(req)
    /\ nframes' = nframes + 1
    /\ hist' = [Idle("drop") EXCEPT !.pkt = req]
    /\ UNCHANGED <<nodes, links, interfaces, dps, requests, events, responses,
                   tasks, sspaths, flows, now, orchPaths, PROTO_RETRIES, nenv,
                   obs>>
    /\ UNCHANGED <<topoVars, appVars>>

FreeSlots == {t \in 1..MaxTasks : tasks[t].pc \in {"free", "done", "dead"}}

NewSlot == CHOOSE t \in FreeSlots : \A u \in FreeSlots : t <= u

\* Request of key k as the HREQ branch sees it (created when new)
LookupOrNew(k) ==
    IF k \in DOMAIN requests THEN requests[k]
    ELSE Request(IF has_node(get_by_mac_node(Src))
                 THEN get_by_mac_node(Src) ELSE None)

\* a gate that lets every HREQ through
AcceptsHREQ_always(r) == TRUE

\* the HREQ branch accepts the frame
AcceptsHREQ(r) == r.state = HREQ \/ r.state = HRES

\* Protocol._protocol_handler, state == HREQ
RecvHREQ(req, k, att, c) ==
    /\ nframes < MaxFrames
    /\ packet_in
    /\ is_request(req)
    /\ req.req_id = k
    /\ LET r0 == LookupOrNew(k)
       IN IF AcceptsHREQ(r0)
          THEN /\ FreeSlots # {}
               /\ requests' = (k :> [r0 EXCEPT
                                      !.cos = c, !.state = RREQ,
                                      !.host = None, !.host_mac_ip = None,
                                      !.attempts = (att :> Attempt) @@ @])
                               @@ requests
               /\ tasks' = [tasks EXCEPT ![NewSlot] =
                              [FreeTask EXCEPT !.pc = "start", !.key = k,
                                               !.att = att, !.src = Src]]
               /\ obs' = [obs EXCEPT !.run = NewSlot, !.sent = {},
                                     !.gaveUp = FALSE,
                                     !.stale = @ \ {NewSlot}]
          ELSE /\ requests' = (k :> r0) @@ requests
               /\ tasks' = tasks
               /\ obs' = obs
    /\ nframes' = nframes + 1
    /\ hist' = [Idle("HREQ") EXCEPT
                  !.pkt = req, !.mac = Src, !.att = att, !.cos = c,
                  !.pre = IF k \in DOMAIN requests THEN requests[k].state
                          ELSE 0]
    /\ UNCHANGED <<nodes, links, interfaces, dps, events, responses, sspaths,
                   flows, now, orchPaths, PROTO_RETRIES, nenv>>
    /\ UNCHANGED <<topoVars, appVars>>

\* ------------------------------------------------- packet-in: RRES frames
\* the RACK to the responder and the HRES to the source that end the RRES
\* branch; _sendp raises when the receiver's datapath is not known
AckOut(mac, att) ==
    IF ~can_sendp(mac) THEN <<>>
    ELSE IF ~can_sendp(Src) THEN <<Frame(RACK, mac, att, None)>>
    ELSE <<Frame(RACK, mac, att, None), Frame(HRES, Src, att, mac)>>

\* "if _req.host: if _req._host_mac_ip != (eth_src, ip_src)": late RRES
IsLateRRES(r, mac) == r.host # None /\ r.host_mac_ip # mac

\* a branch that forgets to look at the Request state
IsRegularRRES_anyState(r, mac) == r.host = None

\* "elif _req.state == RREQ": regular RRES, the one that is promoted
IsRegularRRES(r, mac) == r.host = None /\ r.state = RREQ

\* the placement runs of Request k that have not ended
RunsOf(k) ==
    {t \in 1..MaxTasks : tasks[t].key = k /\ tasks[t].pc \in {"start", "wait"}}

\* effect of the RRES branch on a known Request r of key k
HandleRRES(k, r, mac, att) ==
    LET same == [requests |-> requests, nodes |-> nodes,
                 responses |-> responses, tasks |-> tasks,
                 promoted |-> FALSE, out |-> <<>>]
        host_id == get_by_mac_node(mac)
        rA == [r EXCEPT !.state = HRES]
        rB == [rA EXCEPT !.attempts[att].rres_at = now, !.host_mac_ip = mac]
        stored == [same EXCEPT
                     !.requests = [requests EXCEPT ![k] = rB],
                     !.responses = [responses EXCEPT ![<<k, mac>>] = RRES],
                     !.tasks = SetEvent(tasks, <<k, mac>>),
                     !.promoted = TRUE]
    IN IF IsLateRRES(r, mac)
       THEN [same EXCEPT !.out = IF can_sendp(mac)
                                 THEN <<Frame(RCAN, mac, att, None)>>
                                 ELSE <<>>]
       ELSE IF IsRegularRRES(r, mac)
       THEN IF att \notin DOMAIN r.attempts
            THEN [same EXCEPT !.requests = [requests EXCEPT ![k] = rA],
                              !.promoted = TRUE]
            ELSE IF ~has_node(host_id)
            THEN stored
            ELSE [stored EXCEPT !.nodes = Debit(host_id, r.cos),
                                !.out = AckOut(mac, att)]
       ELSE [same EXCEPT !.out = AckOut(mac, att)]

\* Protocol._protocol_handler, state == RRES
RecvRRES(req, k, mac, att) ==
    /\ nframes < MaxFrames
    /\ packet_in
    /\ is_request(req)
    /\ req.req_id = k
    /\ IF k \in DOMAIN requests
       THEN LET e == HandleRRES(k, requests[k], mac, att)
            IN /\ requests' = e.requests
               /\ nodes' = e.nodes
               /\ responses' = e.responses
               /\ tasks' = e.tasks
               /\ hist' = [Idle("RRES") EXCEPT
                             !.pkt = req, !.mac = mac, !.att = att,
                             !.pre = requests[k].state,
                             !.promoted = e.promoted, !.out = e.out]
               /\ obs' = [obs EXCEPT
                            !.linksAt = IF e.promoted THEN links ELSE @,
                            !.stale = IF e.promoted
                                      THEN @ \cup RunsOf(k) ELSE @,
                            !.sent = @ \cup {<<e.out[x].type, e.out[x].att>> :
                                               x \in {y \in 1..Len(e.out) :
                                                   e.out[y].type # RCAN}}]
       ELSE /\ UNCHANGED <<requests, nodes, responses, tasks, obs>>
            /\ hist' = [Idle("RRES") EXCEPT
                          !.pkt = req, !.mac = mac, !.att = att]
    /\ nframes' = nframes + 1
    /\ UNCHANGED <<links, interfaces, dps, events, sspaths, flows, now,
                   orchPaths, PROTO_RETRIES, nenv>>
    /\ UNCHANGED <<topoVars, appVars>>

\* ------------------------------------------------- packet-in: RCAN frames
\* the RCAN branch stores the reply and wakes the waiting task
AcceptsRCAN(r, mac) ==
    r.state = RREQ /\ (r.host = None \/ r.host_mac_ip = mac)

\* Protocol._protocol_handler, state == RCAN
RecvRCAN(req, k, mac) ==
    /\ nframes < MaxFrames
    /\ packet_in
    /\ is_request(req)
    /\ req.req_id = k
    /\ IF k \in DOMAIN requests /\ AcceptsRCAN(requests[k], mac)
       THEN /\ responses' = [responses EXCEPT ![<<k, mac>>] = RCAN]
            /\ tasks' = SetEvent(tasks, <<k, mac>>)
       ELSE UNCHANGED <<responses, tasks>>
    /\ nframes' = nframes + 1
    /\ hist' = [Idle("RCAN") EXCEPT
                  !.pkt = req, !.mac = mac,
                  !.pre = IF k \in DOMAIN requests THEN requests[k].state
                          ELSE 0]
    /\ UNCHANGED <<nodes, links, interfaces, dps, requests, events, sspaths,
                   flows, now, orchPaths, PROTO_RETRIES, nenv, obs>>
    /\ UNCHANGED <<topoVars, appVars>>

\* -------------------------------------------------------- placement task
\* The candidate loop of _select_host from candidate j on, up to the next
\* RREQ it sends: st is req.state, which no other thread changes meanwhile.
\* With paths the last link of every visited path is read before the retry
\* loop is entered; without paths a node without main interface is skipped.
RECURSIVE NextCand(_, _, _)
NextCand(cands, j, st) ==
    IF j > Len(cands)
    THEN [kind |-> "finish", j |-> j, mac |-> None]
    ELSE IF orchPaths
    THEN LET p == cands[j].path
         IN IF Len(p) < 2 \/ ~has_link(p[Len(p) - 1], p[Len(p)])
            THEN [kind |-> "raise", j |-> j, mac |-> None]
            ELSE IF st = RREQ
            THEN [kind |-> "send", j |-> j, mac |-> port_mac(p[Len(p)])]
            ELSE NextCand(cands, j + 1, st)
    ELSE IF cands[j].main = None
    THEN NextCand(cands, j + 1, st)
    ELSE IF st = RREQ
    THEN [kind |-> "send", j |-> j, mac |-> cands[j].main]
    ELSE NextCand(cands, j + 1, st)

\* the retry loop after a wait that timed out: the same candidate again
\* while retries are left and the Request is in RREQ, else the next one
AfterTimeout(tk, st) ==
    IF tk.rt # 0 /\ st = RREQ
    THEN [kind |-> "send", j |-> tk.i, mac |-> tk.mac]
    ELSE NextCand(tk.cands, tk.i + 1, st)

\* a loop that tries the candidate that cancelled once more
AfterRCAN_again(tk, st) == [kind |-> "send", j |-> tk.i, mac |-> tk.mac]

\* "if rres[MyProtocol].state == RCAN: continue": the next candidate
AfterRCAN(tk, st) == NextCand(tk.cands, tk.i + 1, st)

\* a run that ends without handing the Request back
GiveUp_keep(k) == requests

\* "if req.state == RREQ: req.state = HREQ" at the end of _select_host
GiveUp(k) ==
    IF requests[k].state = RREQ
    THEN [requests EXCEPT ![k].state = HREQ]
    ELSE requests

\* a retry loop that forgets to count: rreq_rt is never decremented twice
RetriesLeft_uncounted(tk, o) == PROTO_RETRIES - 1

\* rreq_rt after the send that outcome o makes
RetriesLeft(tk, o) ==
    IF o.j = tk.i /\ tk.pc = "wait" THEN tk.rt - 1 ELSE PROTO_RETRIES - 1

\* Protocol._install_flows(path[1:-1], flow_info): the rules sent and
\* whether the call raises (sp is the switches-only path)
InstallFlows(sp, smac, dmac) ==
    LET n == Len(sp)
        rules(dp) == {[dp |-> dp, src |-> smac, dst |-> dmac],
                      [dp |-> dp, src |-> dmac, dst |-> smac]}
        innerOK(x) == /\ sp[x] \in dps
                      /\ has_link(sp[x - 1], sp[x])
                      /\ has_link(sp[x], sp[x + 1])
        bad == {x \in 2..(n - 1) : ~innerOK(x)}
        stop == IF bad = {} THEN n
                ELSE CHOOSE x \in bad : \A y \in bad : x <= y
        inner == UNION {rules(sp[x]) : x \in 2..(stop - 1)}
    IN IF n = 0 \/ sp[1] \notin dps
       THEN [raises |-> TRUE, flows |-> {}]
       ELSE IF n = 1
       THEN [raises |-> FALSE,
             flows |-> IF get_by_mac_dpid(dmac) = None THEN {}
                       ELSE rules(sp[1])]
       ELSE IF bad # {} THEN [raises |-> TRUE, flows |-> inner]
       ELSE IF ~has_link(sp[n - 1], sp[n])
       THEN [raises |-> FALSE, flows |-> inner]
       ELSE IF get_by_mac_dpid(dmac) = None
       THEN [raises |-> FALSE, flows |-> inner]
       ELSE IF sp[n] \notin dps THEN [raises |-> TRUE, flows |-> inner]
       ELSE IF ~has_link(sp[1], sp[2])
       THEN [raises |-> TRUE, flows |-> inner \cup rules(sp[n])]
       ELSE [raises |-> FALSE,
             flows |-> inner \cup rules(sp[n]) \cup rules(sp[1])]

\* what a step of task t leaves behind, given the outcome o of its loop
Same == [tasks |-> tasks, requests |-> requests, events |-> events,
         flows |-> flows, sspaths |-> sspaths, fin |-> FALSE, out |-> <<>>]

Ended(t, pc) == [Same EXCEPT !.tasks = [tasks EXCEPT ![t].pc = pc]]

LoopEffect(t, o) ==
    LET tk == tasks[t]
        k == tk.key
    IN IF o.kind = "raise" THEN Ended(t, "dead")
       ELSE IF o.kind = "finish"
       THEN [Ended(t, "done") EXCEPT !.requests = GiveUp(k), !.fin = TRUE]
       ELSE IF ~can_sendp(o.mac) THEN Ended(t, "dead")
       ELSE [Same EXCEPT
               !.tasks = [tasks EXCEPT ![t] =
                            [tk EXCEPT !.pc = "wait", !.i = o.j,
                                       !.mac = o.mac, !.woken = FALSE,
                                       !.rt = RetriesLeft(tk, o),
                                       !.nsent = IF o.j = tk.i
                                                 THEN tk.nsent + 1 ELSE 1]],
               !.events = [events EXCEPT ![<<k, o.mac>>] = t],
               !.out = <<Frame(RREQ, o.mac, tk.att, None)>>]

\* _select_host up to its first wait: node selection, path selection, loop
StartEffect(t) ==
    LET tk == tasks[t]
        r == requests[tk.key]
        hosts == SimpleNodeSelection(r.src, r.cos)
        withCands(cs) ==
            LET e == LoopEffect(t, NextCand(cs, 1, r.state))
            IN [e EXCEPT !.tasks[t].cands = cs, !.tasks[t].hosts = hosts]
    IN IF hosts = <<>> THEN LoopEffect(t, NextCand(<<>>, 1, r.state))
       ELSE IF ~orchPaths THEN withCands(HostCandidates(hosts))
       ELSE IF ~has_node(r.src) THEN Ended(t, "dead")
       ELSE withCands(PathCandidates(r.src, hosts))

\* the task after a wait that the RRES or RCAN handler ended
WakeEffect(t) ==
    LET tk == tasks[t]
        k == tk.key
        rres == responses[<<k, tk.mac>>]
        p == tk.cands[tk.i].path
        inst == InstallFlows(SubSeq(p, 2, Len(p) - 1), tk.src, tk.mac)
    IN IF rres = RCAN
       THEN LoopEffect(t, AfterRCAN(tk, requests[k].state))
       ELSE IF ~orchPaths THEN Ended(t, "done")
       ELSE IF inst.raises
       THEN [Ended(t, "dead") EXCEPT !.flows = flows \cup inst.flows]
       ELSE [Ended(t, "done") EXCEPT
               !.flows = flows \cup inst.flows,
               !.sspaths = sspaths \cup {<<tk.src, tk.mac>>},
               !.requests = [requests EXCEPT
                               ![k].path = p,
                               ![k].attempts[tk.att].path = p]]

\* task t runs from one wait to the next; passed says whether the candidate
\* it leaves behind (if any) used up its sends or replied RCAN
TaskStep(t, e, passed) ==
    LET k == tasks[t].key
        inOrder == e.tasks[t].i <= tasks[t].i + 1
    IN /\ tasks' = [e.tasks EXCEPT
                      ![t].exh = tasks[t].exh /\ passed
                                 /\ (e.tasks[t].pc = "wait" \/ e.fin => inOrder)
                                 /\ (e.fin => tasks[t].i >= Len(e.tasks[t].cands))]
       /\ requests' = e.requests
       /\ events' = e.events
       /\ flows' = e.flows
       /\ sspaths' = e.sspaths
       /\ hist' = [Idle("task") EXCEPT
                     !.t = t, !.fin = e.fin, !.pre = requests[k].state,
                     !.out = e.out]
       /\ obs' = [obs EXCEPT
                    !.gaveUp = @ \/ (e.fin /\ requests[k].state = RREQ)]
       /\ UNCHANGED <<nodes, links, interfaces, dps, responses, now,
                      orchPaths, PROTO_RETRIES, nframes, nenv>>
       /\ UNCHANGED <<topoVars, appVars>>

\* the spawned _select_host runs up to its first wait
TaskStart(t) ==
    /\ tasks[t].pc = "start"
    /\ TaskStep(t, StartEffect(t), TRUE)

\* ev.wait() returns with the event set: _srp1 returns _responses[_key]
TaskWake(t) ==
    /\ tasks[t].pc = "wait"
    /\ tasks[t].woken
    /\ TaskStep(t, WakeEffect(t),
                responses[<<tasks[t].key, tasks[t].mac>>] = RCAN)

\* ev.wait(PROTO_TIMEOUT) times out: _srp1 returns None
TaskTimeout(t) ==
    /\ tasks[t].pc = "wait"
    /\ ~tasks[t].woken
    /\ TaskStep(t, LoopEffect(t, AfterTimeout(tasks[t],
                                              requests[tasks[t].key].state)),
                tasks[t].rt = 0 \/ requests[tasks[t].key].state = RREQ)

\* ------------------------------------------------------------ environment
\* the wall clock advances
Tick ==
    /\ now < MaxTime
    /\ now' = now + 1
    /\ hist' = Idle("tick")
    /\ UNCHANGED <<nodes, links, interfaces, dps, requests, events, responses,
                   tasks, sspaths, flows, orchPaths, PROTO_RETRIES, nframes,
                   nenv, obs>>
    /\ UNCHANGED <<topoVars, appVars>>

\* Topology.delete_node(id) of a host that stopped reporting: the node, its
\* links and the entries of its interfaces in _interfaces go
DeleteNode(h) ==
    /\ nenv < MaxEnv
    /\ has_node(h)
    /\ nodes' = [n \in DOMAIN nodes \ {h} |-> nodes[n]]
    /\ links' = {l \in links : l[1] # h /\ l[2] # h}
    /\ interfaces' = [m \in {x \in DOMAIN interfaces :
                                interfaces[x].node_id # h} |-> interfaces[m]]
    /\ nenv' = nenv + 1
    /\ hist' = Idle("env")
    /\ UNCHANGED <<dps, requests, events, responses, tasks, sspaths, flows,
                   now, orchPaths, PROTO_RETRIES, nframes, obs>>
    /\ UNCHANGED <<topoVars, appVars>>

\* EventPortDelete for the switch port of host h: Topology.delete_interface
\* deletes the two links at that port
PortDelete(h) ==
    /\ nenv < MaxEnv
    /\ has_link(Sw, h) \/ has_link(h, Sw)
    /\ links' = links \ {<<Sw, h>>, <<h, Sw>>}
    /\ nenv' = nenv + 1
    /\ hist' = Idle("env")
    /\ UNCHANGED <<nodes, interfaces, dps, requests, events, responses, tasks,
                   sspaths, flows, now, orchPaths, PROTO_RETRIES, nframes, obs>>
    /\ UNCHANGED <<topoVars, appVars>>

\* EventSwitchLeave: the datapath leaves Switches.dps and
\* Topology.delete_node(dpid) removes the switch and its links
SwitchLeave ==
    /\ nenv < MaxEnv
    /\ Sw \in dps
    /\ dps' = dps \ {Sw}
    /\ nodes' = [n \in DOMAIN nodes \ {Sw} |-> nodes[n]]
    /\ links' = {l \in links : l[1] # Sw /\ l[2] # Sw}
    /\ nenv' = nenv + 1
    /\ hist' = Idle("env")
    /\ UNCHANGED <<interfaces, requests, events, responses, tasks, sspaths,
                   flows, now, orchPaths, PROTO_RETRIES, nframes, obs>>
    /\ UNCHANGED <<topoVars, appVars>>

\* ------------------------------------------------------------------- Next
Next ==
    \/ \E req \in Packets, k \in ReqKeys, att \in AttNos, c \in CosIds :
          RecvHREQ(req, k, att, c)
    \/ \E req \in Packets, k \in ReqKeys, mac \in Senders, att \in AttNos :
          RecvRRES(req, k, mac, att)
    \/ \E req \in Packets, k \in ReqKeys, mac \in Senders :
          RecvRCAN(req, k, mac)
    \/ \E req \in Packets : DropPacket(req)
    \/ \E t \in 1..MaxTasks : TaskStart(t)
    \/ \E t \in 1..MaxTasks : TaskWake(t)
    \/ \E t \in 1..MaxTasks : TaskTimeout(t)
    \/ Tick
    \/ \E h \in Hosts : DeleteNode(h)
    \/ \E h \in Hosts : PortDelete(h)
    \/ SwitchLeave

Spec == Init /\ [][Next]_vars

\* timers expire and runnable green threads are scheduled
Fairness ==
    \A t \in 1..MaxTasks :
        /\ WF_vars(TaskStart(t))
        /\ WF_vars(TaskWake(t))
        /\ WF_vars(TaskTimeout(t))

\* the fair runs without orchestrator paths in which the data plane delivers
\* at most LiveFrames frames
LiveInit == Init /\ ~orchPaths

LiveNext ==
    \/ /\ nframes < LiveFrames
       /\ \/ \E req \in Packets, k \in ReqKeys, att \in AttNos,
                   c \in CosIds :
                RecvHREQ(req, k, att, c)
          \/ \E req \in Packets, k \in ReqKeys, mac \in Senders,
                   att \in AttNos :
                RecvRRES(req, k, mac, att)
          \/ \E req \in Packets, k \in ReqKeys, mac \in Senders :
                RecvRCAN(req, k, mac)
          \/ \E req \in Packets : DropPacket(req)
    \/ \E t \in 1..MaxTasks : TaskStart(t)
    \/ \E t \in 1..MaxTasks : TaskWake(t)
    \/ \E t \in 1..MaxTasks : TaskTimeout(t)
    \/ Tick
    \/ \E h \in Hosts : DeleteNode(h)
    \/ \E h \in Hosts : PortDelete(h)
    \/ SwitchLeave

LiveSpec == LiveInit /\ [][LiveNext]_vars /\ Fairness

\* ------------------------------------------ state updater on the Topology
\* TopologyState.update_node_specs and update_link_specs: False for a node
\* or a link the topology does not have
TopologyState_update_node_specs(g, id, upd, timestamp) ==
    IF Topology_get_node(g, id) # None
    THEN Ret([g EXCEPT !.nodes[id].specs = set_specs(@, upd, timestamp)],
             TRUE)
    ELSE Ret(g, FALSE)

TopologyState_update_link_specs(g, src_id, dst_id, upd, timestamp) ==
    LET link == Topology_get_link(g, src_id, dst_id)
    IN IF link # None
       THEN Ret([g EXCEPT !.edges[link].specs = set_specs(@, upd, timestamp)],
                TRUE)
       ELSE Ret(g, FALSE)

\* the values an update carries: a subset of the fields, each with a value
SpecsUpdate(fields, value) == [f \in fields |-> value]

Call_update_node_specs(id, fields, timestamp) ==
    /\ ncalls < MaxCalls
    /\ Called("update_node_specs", <<id>>,
              TopologyState_update_node_specs(
                  topo, id, SpecsUpdate(fields, 1), timestamp))

Call_update_link_specs(src_id, dst_id, fields, timestamp) ==
    /\ ncalls < MaxCalls
    /\ Called("update_link_specs", <<src_id, dst_id>>,
              TopologyState_update_link_specs(
                  topo, src_id, dst_id, SpecsUpdate(fields, 1), timestamp))

\* update_interface_specs and the monitors. An update is a record of the
\* arguments that are not None; recv is the iperf3 reading _recv_bps, in the
\* unit of the capacities.
BwFields == {"capacity", "bandwidth_up", "bandwidth_down"}
PacketFields == {"tx_packets", "rx_packets"}
ByteFields == {"tx_bytes", "rx_bytes"}

Restrict(f, S) == [x \in DOMAIN f \cap S |-> f[x]]

Min(x, y) == IF x <= y THEN x ELSE y

Max(x, y) == IF x >= y THEN x ELSE y

PortSpecs(g, id, name) == g.nodes[id].interfaces[name].specs

\* _save_stats: the last `length` values of a key
save_stats(d, key, value, length) ==
    LET l == Append(Get(d, key, <<>>), value)
    IN Put(d, key, IF Len(l) > length THEN Tail(l) ELSE l)

\* the capacity of a port the network monitor has no feature for: None,
\* which min() cannot order with a number
NoCapacity == 0 - 1

\* the loss rate of _update_link_specs_at_port: any exception in it (a key
\* or a counter that is missing, a division by zero) gives 1. The counters
\* of the model are 0 or 1, so the quotient is exact.
LossRate(st, key, dst_key, tx_packets, dst_rx_packets) ==
    IF /\ dst_key \in DOMAIN st.port_stats
       /\ "tx_packets" \in DOMAIN st.port_stats[key][1]
       /\ "rx_packets" \in DOMAIN st.port_stats[dst_key][1]
       /\ tx_packets # st.port_stats[key][1].tx_packets
    THEN LET re_tx == tx_packets - st.port_stats[key][1].tx_packets
             re_rx == dst_rx_packets - st.port_stats[dst_key][1].rx_packets
         IN Max(0, (re_tx - re_rx) \div re_tx)
    ELSE 1

\* _update_link_specs_at_port: a sample is saved for the port; the Link that
\* LEAVES the port, if the port index has one, gets capacity, bandwidth and
\* loss rate from its two ports, and last of all the timestamp given. An
\* iperf3 reading opens the iperf window of the destination port, becomes
\* its capacity, and needs the byte counters of its last sample.
update_link_specs_at_port(g, st, src_id, port_name, upd, timestamp) ==
    LET key == <<src_id, port_name>>
        st1 == [st EXCEPT !.port_stats =
                   save_stats(@, key, Restrict(upd, PacketFields
                                                    \cup ByteFields),
                              MONITOR_SAMPLES)]
        link == Topology_get_link_at_port(g, src_id, port_name)
    IN IF link = None THEN Res(g, st1, FALSE)
       ELSE
        LET src == g.edges[link].src_port.name
            dst == g.edges[link].dst_port.name
            dst_id == Topology_get_dst_at_port(g, src_id, port_name)
            dst_key == <<dst_id, dst>>
            iperf == "_recv_bps" \in DOMAIN upd
            st2 == IF iperf
                   THEN [st1 EXCEPT !.iperf3_update = Put(@, dst_key, now)]
                   ELSE st1
            g1 == IF iperf
                  THEN [g EXCEPT !.nodes[dst_id].interfaces[dst].specs =
                           set_specs(@, [capacity |-> upd._recv_bps], 0)]
                  ELSE g
            tmp == Get(st2.port_stats, dst_key, <<>>)
            speeds == iperf /\ tmp # <<>>
            bytes == speeds /\ \A i \in 1..Len(tmp) :
                                   ByteFields \subseteq DOMAIN tmp[i]
            up_pre == IF Len(tmp) > 1 THEN tmp[Len(tmp) - 1].tx_bytes ELSE 0
            down_pre == IF Len(tmp) > 1 THEN tmp[Len(tmp) - 1].rx_bytes ELSE 0
            g2 == IF bytes
                  THEN [g1 EXCEPT !.nodes[dst_id].interfaces[dst].specs =
                          set_specs(@,
                            [bandwidth_up |->
                               Max(0, upd._recv_bps
                                      - ((tmp[Len(tmp)].tx_bytes - up_pre)
                                         \div MONITOR_PERIOD)),
                             bandwidth_down |->
                               Max(0, upd._recv_bps
                                      - ((tmp[Len(tmp)].rx_bytes - down_pre)
                                         \div MONITOR_PERIOD))], 0)]
                  ELSE g1
            S == PortSpecs(g2, link[1], src)
            D == PortSpecs(g2, link[2], dst)
            measured ==
                [capacity |-> Min(S.capacity, D.capacity),
                 bandwidth |-> Min(S.bandwidth_up, D.bandwidth_down)]
                @@ (IF "tx_packets" \in DOMAIN upd
                    THEN [loss_rate |-> LossRate(st2, key, dst_key,
                                                 upd.tx_packets, D.rx_packets)]
                    ELSE <<>>)
        IN IF speeds /\ ~bytes THEN Raised(g1, st2)
           ELSE IF NoCapacity \in {S.capacity, D.capacity}
           THEN Raised(g2, st2)
           ELSE Res([g2 EXCEPT !.edges[link].specs =
                        set_timestamp(set_specs(@, measured, 0), timestamp)],
                    st2, TRUE)

\* TopologyState.update_interface_specs: the window of (node_id, name) opens;
\* the timestamp is stored, then the fields given: capacity and bandwidths
\* only while no iperf window is open for the port. Interface has no setter
\* for the byte counters, so an update that carries them ends there.
TopologyState_update_interface_specs(g, st, node_id, name, upd, timestamp) ==
    IF Topology_get_interface(g, node_id, name) = None THEN Res(g, st, None)
    ELSE
     LET interface == Topology_get_interface(g, node_id, name)
         key == <<node_id, name>>
         st1 == [st EXCEPT !.block_app_update = Put(@, key, now)]
         written == Restrict(upd, PacketFields \cup
                        (IF key \notin DOMAIN st.iperf3_update
                         THEN BwFields ELSE {}))
         g1 == [g EXCEPT !.nodes[node_id].interfaces[interface].specs =
                   set_specs(@, written, timestamp)]
     IN IF DOMAIN upd \cap ByteFields # {} THEN Raised(g1, st1)
        ELSE LET r == update_link_specs_at_port(
                          g1, st1, node_id, name,
                          Restrict(upd, PacketFields \cup ByteFields
                                        \cup {"_recv_bps"}), timestamp)
             IN IF r.raised THEN r ELSE Res(r.topo, r.state, None)

\* a monitor tick that writes whether or not a window is open
Suppressed_never(st, key) == FALSE

\* _update_bandwidth_loss_rate skips a port whose API-update window is open
Suppressed(st, key) == key \in DOMAIN st.block_app_update

\* one port of one tick of _update_bandwidth_loss_rate: capacity, bandwidths
\* and packet counters of the port come from the network monitor, then the
\* link leaving the port is measured again
MonitorPort(g, st, dpid, port_no, reading) ==
    LET port == Topology_get_interface(g, dpid, port_no)
    IN IF port = None \/ Suppressed(st, <<dpid, port>>) THEN Res(g, st, None)
       ELSE update_link_specs_at_port(
                [g EXCEPT !.nodes[dpid].interfaces[port].specs =
                    set_specs(@, reading, 0)],
                st, dpid, port, Restrict(reading, PacketFields), 0)

\* the ports of a tick, one after the other
RECURSIVE MonitorPorts(_, _, _, _, _)
MonitorPorts(g, st, dpid, ports, reading) ==
    IF ports = <<>> THEN Res(g, st, None)
    ELSE LET r == MonitorPort(g, st, dpid, Head(ports), reading)
         IN IF r.raised THEN r
            ELSE MonitorPorts(r.topo, r.state, dpid, Tail(ports), reading)

\* what the network monitor reports for a port: speed feature, free
\* bandwidths, packet counters
Reading(bw, packets) ==
    [capacity |-> bw, bandwidth_up |-> bw, bandwidth_down |-> bw,
     tx_packets |-> packets, rx_packets |-> packets]

\* the same for a port whose description the network monitor has not stored
ReadingNoFeature(bw, packets) ==
    [Reading(bw, packets) EXCEPT !.capacity = NoCapacity]

\* _check_update: a window older than MONITOR_PERIOD + 1 is closed
Expired(d) == {key \in DOMAIN d : now - d[key] > MONITOR_PERIOD + 1}

check_update(st) ==
    [st EXCEPT
       !.block_app_update = [key \in DOMAIN @ \ Expired(@) |-> @[key]],
       !.iperf3_update = [key \in DOMAIN @ \ Expired(@) |-> @[key]]]

Call_update_interface_specs(id, name, upd, timestamp) ==
    /\ ncalls < MaxCalls
    /\ Called("update_interface_specs", <<id, name>>,
              TopologyState_update_interface_specs(
                  topo, tstate, id, name, upd, timestamp))

\* a tick of a periodic loop: the loops have no exception handler, so an
\* exception raised in a tick leaves the while loop and the thread is over
Ticked(loop, r) ==
    IF r.raised THEN [r EXCEPT !.state.loops = @ \ {loop}] ELSE r

\* a tick of the bandwidth and loss monitor over the ports the network
\* monitor has data for
MonitorTick(dpid, ports, reading) ==
    /\ ncalls < MaxCalls
    /\ "bandwidth_loss" \in tstate.loops
    /\ Called("monitor_tick", <<dpid>>,
              Ticked("bandwidth_loss",
                     MonitorPorts(topo, tstate, dpid, ports, reading)))

\* one port of one tick of _update_link_state: the state the network monitor
\* stored for the port goes to the two Links at the port; a state that is no
\* key of link_states raises KeyError
link_states == [Down |-> FALSE, Blocked |-> FALSE, Live |-> TRUE]

LinkStatePort(g, st, dpid, port_no, feat) ==
    LET dst == Topology_get_dst_at_port(g, dpid, port_no)
        both == IF dst = None THEN {}
                 ELSE {<<dpid, dst>>, <<dst, dpid>>} \cap DOMAIN g.edges
    IN IF feat \notin DOMAIN link_states THEN Raised(g, st)
       ELSE Res([g EXCEPT !.edges =
                    [l \in DOMAIN @ |->
                        IF l \in both
                        THEN [@[l] EXCEPT !.state = link_states[feat]]
                        ELSE @[l]]],
                st, None)

RECURSIVE LinkStatePorts(_, _, _, _, _)
LinkStatePorts(g, st, dpid, ports, feat) ==
    IF ports = <<>> THEN Res(g, st, None)
    ELSE LET r == LinkStatePort(g, st, dpid, Head(ports), feat)
         IN IF r.raised THEN r
            ELSE LinkStatePorts(r.topo, r.state, dpid, Tail(ports), feat)

\* a tick of the link state loop over the ports the network monitor has a
\* description for
LinkStateTick(dpid, ports, feat) ==
    /\ ncalls < MaxCalls
    /\ "link_state" \in tstate.loops
    /\ Called("link_state_tick", <<dpid>>,
              Ticked("link_state",
                     LinkStatePorts(topo, tstate, dpid, ports, feat)))

\* a tick of the window checker
CheckUpdate ==
    /\ tstate' = check_update(tstate)
    /\ UNCHANGED <<topo, impl, last, ncalls, now, protoVars, appVars>>

\* the clock of the state updater advances
Clock ==
    /\ now < MaxNow
    /\ now' = now + 1
    /\ UNCHANGED <<topoVars, protoVars, appVars>>

\* ------------------------------------------------- the topology on its own
\* The topology a controller has after one switch "a" with two ports and two
\* hosts "b" and "c" behind them were discovered: built by the calls the
\* handlers make.
Built ==
    LET n1 == Topology_add_node(Topology, "a").topo
        n2 == Topology_add_node(n1, "b").topo
        n3 == Topology_add_node(n2, "c").topo
        i1 == Topology_add_interface(n3, "a", "p1", PortNum["p1"],
                                     None, None).topo
        i2 == Topology_add_interface(i1, "a", "p2", PortNum["p2"],
                                     None, None).topo
        i3 == Topology_add_interface(i2, "b", "p1", PortNum["p1"],
                                     MacOf["b"]["p1"], IpOf["b"]["p1"]).topo
        i4 == Topology_add_interface(i3, "c", "p1", PortNum["p1"],
                                     MacOf["c"]["p1"], IpOf["c"]["p1"]).topo
        l1 == Topology_add_link(i4, "a", "b", "p1", "p1", TRUE).topo
        l2 == Topology_add_link(l1, "b", "a", "p1", "p1", TRUE).topo
        l3 == Topology_add_link(l2, "a", "c", "p2", "p1", TRUE).topo
    IN Topology_add_link(l3, "c", "a", "p1", "p2", TRUE).topo

TopoInit ==
    /\ ProtocolInit
    /\ ~orchPaths
    /\ PROTO_RETRIES = 1
    /\ impl \in {"model", "app"}
    /\ topo \in {Topology, Built}
    /\ tstate = TopologyState
    /\ last = NoCall
    /\ ncalls = 0
    /\ AppsIdle

TopoNext ==
    \/ \E id \in TNodes : Call_add_node(id)
    \/ \E id \in TNodes : Call_delete_node(id)
    \/ \E id \in TNodes, name \in PortNames, addressed \in BOOLEAN :
          Call_add_interface(id, name, addressed)
    \/ \E id \in TNodes, name \in PortNames : Call_delete_interface(id, name)
    \/ \E src_id, dst_id \in TNodes, sp, dp \in PortNames :
          Call_add_link(src_id, dst_id, sp, dp)
    \/ \E src_id, dst_id \in TNodes : Call_delete_link(src_id, dst_id)
    \/ \E id \in TNodes, fields \in SUBSET {"cpu_free"} :
          Call_update_node_specs(id, fields, 0)
    \/ \E src_id, dst_id \in TNodes, fields \in SUBSET {"delay"} :
          Call_update_link_specs(src_id, dst_id, fields, 0)

TopoSpec == TopoInit /\ [][TopoNext]_vars

\* ---------------------------------------------- the state updater at work
\* The topology is built and stays as it is; the REST API, the monitors and
\* the window checker update its specs while the clock advances.
\* The updates go to the two ends of the link between the switch "a" and
\* the host "b"; the network monitor reports port 1 of the switch, alone or
\* with port 2.
Switches == {"a"}
FeatStates == {"Down", "Blocked", "Live", "up"}
Stamps == {0, 1}
PortSeqs == {<<"1">>, <<"1", "2">>}
UpdatedNodes == {"b"}
UpdatedPorts == {<<"a", "p1">>, <<"b", "p1">>}
UpdatedLinks == {<<"a", "b">>, <<"b", "a">>}
UpdateArgs ==
    {SpecsUpdate(BwFields, v) : v \in {1, 2}}
    \cup {SpecsUpdate(F, 1) :
             F \in {{}, PacketFields, {"_recv_bps"}, {"tx_bytes"}}}

StateInit ==
    /\ ProtocolInit
    /\ ~orchPaths
    /\ PROTO_RETRIES = 1
    /\ impl = "app"
    /\ topo = Built
    /\ tstate = TopologyState
    /\ last = NoCall
    /\ ncalls = 0
    /\ AppsIdle

StateNext ==
    \/ \E id \in UpdatedNodes, fields \in SUBSET {"cpu_free"},
          timestamp \in Stamps :
          Call_update_node_specs(id, fields, timestamp)
    \/ \E l \in UpdatedLinks, fields \in SUBSET {"delay"} :
          Call_update_link_specs(l[1], l[2], fields, 0)
    \/ \E p \in UpdatedPorts, upd \in UpdateArgs, timestamp \in Stamps :
          Call_update_interface_specs(p[1], p[2], upd, timestamp)
    \/ \E dpid \in Switches, ports \in PortSeqs, packets \in {0, 1} :
          \/ MonitorTick(dpid, ports, Reading(3, packets))
          \/ MonitorTick(dpid, ports, ReadingNoFeature(3, packets))
    \/ \E dpid \in Switches, ports \in PortSeqs, feat \in FeatStates :
          LinkStateTick(dpid, ports, feat)
    \/ CheckUpdate
    \/ Clock

StateSpec == StateInit /\ [][StateNext]_vars

\* ------------------------------------------------ the heartbeat registry
\* The clients ping over UDP; udp_server forgets the ids that stopped and
\* the Topology application deletes the nodes that are neither clients nor
\* datapaths. Both loops sleep UDP_TIMEOUT between two rounds.
UDP_TIMEOUT == 3
MaxBeat == 7
Pingers == {"b", "c"}

BeatInit ==
    /\ ProtocolInit
    /\ ~orchPaths
    /\ PROTO_RETRIES = 1
    /\ impl = "app"
    /\ topo = Topology_add_node(Topology, "a").topo
    /\ tstate = TopologyState
    /\ last = NoCall
    /\ ncalls = 0
    /\ clients = <<>>
    /\ switches = {"a"}
    /\ heard = <<>>
    /\ due = [purge |-> now + UDP_TIMEOUT, check |-> now + UDP_TIMEOUT]
    /\ HostsIdle
    /\ ForwarderIdle

\* a host registers: add_node puts it in the graph; nothing is recorded in
\* clients
Register(id) ==
    /\ id \notin DOMAIN topo.nodes
    /\ topo' = Topology_add_node(topo, id).topo
    /\ heard' = Put(heard, id, now)
    /\ last' = [op |-> "add_node", args |-> <<id>>, ret |-> None,
                 raised |-> FALSE]
    /\ ncalls' = ncalls + 1
    /\ UNCHANGED <<impl, tstate, now, protoVars, clients, switches, due,
                   host_ports, waiters, net, outs, db,
                   retrying>>

\* UDPHandler.handle: a datagram carrying an id
Heartbeat(id) ==
    /\ clients' = Put(clients, id, now)
    /\ heard' = Put(heard, id, now)
    /\ UNCHANGED <<topoVars, now, protoVars, switches, due, host_ports,
                   waiters, net, outs, db,
                   retrying>>

\* a round of udp_server._check_clients
Purge ==
    /\ now = due.purge
    /\ clients' = [id \in {c \in DOMAIN clients :
                               ~(now - clients[c] > UDP_TIMEOUT)}
                      |-> clients[id]]
    /\ due' = [due EXCEPT !.purge = now + UDP_TIMEOUT]
    /\ UNCHANGED <<topoVars, now, protoVars, switches, heard, host_ports,
                   waiters, net, outs, db,
                   retrying>>

\* delete_node for each of ids
RECURSIVE DeleteNodes(_, _)
DeleteNodes(g, ids) ==
    IF ids = {} THEN g
    ELSE LET id == CHOOSE x \in ids : TRUE
         IN DeleteNodes(Topology_delete_node(g, id).topo, ids \ {id})

\* a round of Topology._check_clients
CheckClients ==
    /\ now = due.check
    /\ topo' = DeleteNodes(topo, {id \in DOMAIN topo.nodes :
                                     /\ id \notin DOMAIN clients
                                     /\ id \notin switches})
    /\ due' = [due EXCEPT !.check = now + UDP_TIMEOUT]
    /\ last' = [op |-> "check_clients", args |-> <<>>, ret |-> None,
                 raised |-> FALSE]
    /\ ncalls' = ncalls + 1
    /\ UNCHANGED <<impl, tstate, now, protoVars, clients, switches, heard,
                   host_ports, waiters, net, outs, db,
                   retrying>>

\* the clock advances up to the next round of a loop
BeatClock ==
    /\ now < MaxBeat
    /\ now < due.purge
    /\ now < due.check
    /\ now' = now + 1
    /\ UNCHANGED <<topoVars, protoVars, clients, switches, heard, due,
                   host_ports, waiters, net, outs, db,
                   retrying>>

BeatNext ==
    \/ \E id \in Pingers : Register(id)
    \/ \E id \in Pingers : Heartbeat(id)
    \/ Purge
    \/ CheckClients
    \/ BeatClock

BeatSpec == BeatInit /\ [][BeatNext]_vars

\* ------------------------------------------------------- the host links
\* A host registers an interface with its MAC; the switches application
\* reports the MAC on a switch port; a thread spawned at the registration
\* waits for the report and the stitcher adds the two Links.
MainInterfaceRetries == 100
Stitched == {"b"}

\* switch "a" with its two ports and the host nodes, no host interface yet
Wired ==
    LET n1 == Topology_add_node(Topology, "a").topo
        n2 == Topology_add_node(n1, "b").topo
        i1 == Topology_add_interface(n2, "a", "p1", PortNum["p1"],
                                     None, None).topo
    IN Topology_add_interface(i1, "a", "p2", PortNum["p2"], None, None).topo

HostInit ==
    /\ ProtocolInit
    /\ ~orchPaths
    /\ PROTO_RETRIES = 1
    /\ impl = "app"
    /\ topo = Wired
    /\ tstate = TopologyState
    /\ last = NoCall
    /\ ncalls = 0
    /\ BeatIdle
    /\ HostsIdle
    /\ ForwarderIdle

\* add_interface with a MAC: the Interface is stored and a thread is
\* spawned that waits for the MAC to show up on a switch port
RegisterInterface(id, name) ==
    /\ MacOf[id][name] \notin DOMAIN waiters
    /\ topo' = Topology_add_interface(topo, id, name, PortNum[name],
                                       MacOf[id][name], IpOf[id][name]).topo
    /\ waiters' = Put(waiters, MacOf[id][name],
                       [node |-> id, ipv4 |-> IpOf[id][name],
                        retries |-> MainInterfaceRetries])
    /\ UNCHANGED <<impl, tstate, last, ncalls, now, protoVars, clients,
                   switches, heard, due, host_ports, net, outs, db,
                   retrying>>

\* _host_add_handler
HostAdd(mac, dpid, name) ==
    /\ host_ports' = Put(host_ports, mac,
                          [dpid |-> dpid, name |-> name,
                           port_no |-> PortNum[name]])
    /\ UNCHANGED <<topoVars, now, protoVars, clients, switches, heard, due,
                   waiters, net, outs, db,
                   retrying>>

\* one turn of the loop of _set_main_interface: the port of the MAC is
\* copied to the MAC index and the thread returns, or a retry is used up
SetMainInterface(mac) ==
    /\ mac \in DOMAIN waiters
    /\ waiters[mac].retries > 0
    /\ IF mac \in DOMAIN host_ports
       THEN LET port == host_ports[mac]
                w == waiters[mac]
                g1 == [topo EXCEPT !.interfaces[mac] =
                          [dpid |-> port.dpid, port_name |-> port.name,
                           port_no |-> port.port_no] @@ @]
                g2 == IF w.node \in DOMAIN g1.nodes
                         /\ g1.nodes[w.node].main_interface = <<>>
                      THEN [g1 EXCEPT !.nodes[w.node].main_interface =
                               <<mac, w.ipv4>>]
                      ELSE g1
            IN /\ topo' = g2
               /\ waiters' = [waiters EXCEPT ![mac].retries = 0]
       ELSE /\ waiters' = [waiters EXCEPT ![mac].retries = @ - 1]
            /\ topo' = topo
    /\ UNCHANGED <<impl, tstate, last, ncalls, now, protoVars, clients,
                   switches, heard, due, host_ports, net, outs, db,
                   retrying>>

\* one MAC of one round of _add_host_links
HostLinks(g, mac) ==
    LET i == g.interfaces[mac]
        node_id == i.node_id
        dpid == IF "dpid" \in DOMAIN i THEN i.dpid ELSE None
    IN IF node_id \in DOMAIN g.nodes /\ dpid \in DOMAIN g.nodes
       THEN LET g1 == IF Topology_get_link(g, node_id, dpid) = None
                      THEN Topology_add_link(g, node_id, dpid, i.name,
                                             i.port_name, FALSE).topo
                      ELSE g
            IN IF Topology_get_link(g1, dpid, node_id) = None
               THEN Topology_add_link(g1, dpid, node_id, i.port_name,
                                      i.name, FALSE).topo
               ELSE g1
       ELSE g

RECURSIVE HostLinksOf(_, _)
HostLinksOf(g, macs) ==
    IF macs = {} THEN g
    ELSE LET mac == CHOOSE x \in macs : TRUE
         IN HostLinksOf(HostLinks(g, mac), macs \ {mac})

\* one round of _add_host_links
AddHostLinks ==
    /\ topo' = HostLinksOf(topo, DOMAIN topo.interfaces)
    /\ UNCHANGED <<impl, tstate, last, ncalls, now, protoVars, appVars>>

HostNext ==
    \/ \E id \in Stitched : RegisterInterface(id, "p1")
    \/ \E id \in Stitched, name \in PortNames :
          HostAdd(MacOf[id]["p1"], "a", name)
    \/ \E mac \in Macs : SetMainInterface(mac)
    \/ AddHostLinks

\* the green threads are scheduled again after each sleep(1)
HostFairness ==
    /\ \A mac \in Macs : WF_vars(SetMainInterface(mac))
    /\ WF_vars(AddHostLinks)

HostSpec == HostInit /\ [][HostNext]_vars /\ HostFairness

\* ------------------------------------------------- the flows of a path
\* Hosts "x" and "z" sit on the first switch of a line of one to three
\* switches, host "y" on the last one. The protocol installs the flows of
\* a path between two hosts, as it does when a host accepted a request.
MaxLine == 3
MaxInstalls == 3
Line == <<"s1", "s2", "s3", "s4">>
Ends == {"x", "y", "z"}

\* the switch port a host is seen on: port 3 of the first switch for "x",
\* port 4 of it for "z", port 5 of the last switch for "y"
EndAt(K) == [x |-> [dpid |-> Line[1], port_name |-> "p3", port_no |-> "3"],
             z |-> [dpid |-> Line[1], port_name |-> "p4", port_no |-> "4"],
             y |-> [dpid |-> Line[K], port_name |-> "p5", port_no |-> "5"]]

\* switch k of the line, with port 1 towards the switch before it and
\* port 2 towards the switch after it
WithSwitch(g, k) ==
    LET g1 == Topology_add_node(g, Line[k]).topo
        g2 == Topology_add_interface(g1, Line[k], "p1", "1", None, None).topo
        g3 == Topology_add_interface(g2, Line[k], "p2", "2", None, None).topo
        g4 == Topology_add_link(g3, Line[k - 1], Line[k], "p2", "p1",
                                TRUE).topo
    IN IF k = 1 THEN g3
       ELSE Topology_add_link(g4, Line[k], Line[k - 1], "p1", "p2",
                              TRUE).topo

\* the first k switches of the line, one after the other
RECURSIVE WithSwitches(_, _)
WithSwitches(g, k) ==
    IF k = 0 THEN g
    ELSE CHOOSE g1 \in {WithSwitch(g0, k) : g0 \in {WithSwitches(g, k - 1)}} :
            TRUE

\* a host with its interface, seen on its switch port and linked to it
WithEnd(g, K, h) ==
    LET at == EndAt(K)[h]
        mac == "mac_" \o h
        g1 == Topology_add_node(g, h).topo
        g2 == Topology_add_interface(g1, h, "eth0", "1", mac,
                                     "ip_" \o h).topo
        g3 == Topology_add_interface(g2, at.dpid, at.port_name, at.port_no,
                                     None, None).topo
        g4 == [g3 EXCEPT !.interfaces[mac] = at @@ @]
    IN HostLinks(g4, mac)

\* the line of K switches with its three hosts, one call after the other
LineOf(K) ==
    CHOOSE g \in {WithEnd(g2, K, "y") :
                     g2 \in {WithEnd(g1, K, "z") :
                                g1 \in {WithEnd(g0, K, "x") :
                                           g0 \in {WithSwitches(Topology,
                                                                 K)}}}} :
       TRUE

\* the path of nodes between two hosts of the line
RECURSIVE Upto(_, _)
Upto(a, b) == IF a > b THEN <<>> ELSE <<Line[a]>> \o Upto(a + 1, b)

RECURSIVE Reversed(_)
Reversed(q) == IF q = <<>> THEN <<>> ELSE Reversed(Tail(q)) \o <<Head(q)>>

SwitchPath(K, src, dst) ==
    IF EndAt(K)[src].dpid = EndAt(K)[dst].dpid
    THEN <<EndAt(K)[src].dpid>>
    ELSE IF EndAt(K)[src].dpid = Line[1] THEN Upto(1, K)
    ELSE Reversed(Upto(1, K))

\* _send_flow_mod: the flows of the datapath between the two addresses are
\* deleted, then the new flow is installed
send_flow_mod(o, datapath, flow_info, src_port, dst_port) ==
    LET flow == [dp |-> datapath, ipv4_src |-> flow_info.src_ip,
                 ipv4_dst |-> flow_info.dst_ip, in_port |-> src_port,
                 out_port |-> dst_port]
    IN [o EXCEPT
          !.flows = {f \in @ : ~(/\ f.dp = datapath
                                  /\ f.ipv4_src = flow_info.src_ip
                                  /\ f.ipv4_dst = flow_info.dst_ip)}
                    \cup {flow},
          !.sent = Append(@, flow)]

send_forward_only(o, datapath, flow_info, back_info, src_port, dst_port) ==
    send_flow_mod(o, datapath, flow_info, src_port, dst_port)

\* the two flows of a datapath: one way and back
send_both(o, datapath, flow_info, back_info, src_port, dst_port) ==
    send_flow_mod(send_flow_mod(o, datapath, flow_info, src_port, dst_port),
                  datapath, back_info, dst_port, src_port)

\* the datapaths between the first and the last one, from index i on
RECURSIVE InterLink(_, _, _, _, _, _, _)
InterLink(g, registry, o, path, flow_info, back_info, i) ==
    IF i > Len(path) - 1 \/ o.raised THEN o
    ELSE IF \/ path[i] \notin registry
            \/ Topology_get_link(g, path[i - 1], path[i]) = None
            \/ Topology_get_link(g, path[i], path[i + 1]) = None
    THEN [o EXCEPT !.raised = TRUE]
    ELSE InterLink(g, registry,
             send_both(o, path[i], flow_info, back_info,
                       g.edges[<<path[i - 1], path[i]>>].dst_port.num,
                       g.edges[<<path[i], path[i + 1]>>].src_port.num),
             path, flow_info, back_info, i + 1)

\* get_by_mac(mac, 'port_no')
PortNoOf(g, mac) ==
    IF mac \in DOMAIN g.interfaces /\ "port_no" \in DOMAIN g.interfaces[mac]
    THEN g.interfaces[mac].port_no ELSE None

\* _install_flows on a path of switches
Protocol_install_flows(g, registry, fl, path, flow_info) ==
    LET back_info == [src_ip |-> flow_info.dst_ip,
                      dst_ip |-> flow_info.src_ip,
                      in_port |-> flow_info.in_port,
                      src_mac |-> flow_info.dst_mac,
                      dst_mac |-> flow_info.src_mac]
        n == Len(path)
        o == [flows |-> fl, sent |-> <<>>, raised |-> FALSE]
        to_dst == PortNoOf(g, flow_info.dst_mac)
    IN IF n = 0 \/ path[1] \notin registry THEN [o EXCEPT !.raised = TRUE]
       ELSE IF n > 1
       THEN LET o1 == InterLink(g, registry, o, path, flow_info, back_info, 2)
            IN IF o1.raised THEN o1
               ELSE IF Topology_get_link(g, path[n - 1], path[n]) = None
               THEN o1
               ELSE IF to_dst = None THEN o1
               ELSE IF path[n] \notin registry
               THEN [o1 EXCEPT !.raised = TRUE]
               ELSE LET o2 == send_both(o1, path[n], flow_info, back_info,
                               g.edges[<<path[n - 1], path[n]>>].dst_port.num,
                               to_dst)
                    IN IF Topology_get_link(g, path[1], path[2]) = None
                       THEN [o2 EXCEPT !.raised = TRUE]
                       ELSE LET out_port ==
                                  g.edges[<<path[1], path[2]>>].src_port.num
                            IN IF out_port = None THEN o2
                               ELSE send_both(o2, path[1], flow_info,
                                              back_info, flow_info.in_port,
                                              out_port)
       ELSE IF to_dst = None THEN o
       ELSE send_both(o, path[1], flow_info, back_info, flow_info.in_port,
                      to_dst)

FlowInit ==
    /\ ProtocolInit
    /\ orchPaths
    /\ PROTO_RETRIES = 1
    /\ impl = "app"
    /\ \E K \in 1..MaxLine :
          /\ topo = LineOf(K)
          /\ switches = {Line[k] : k \in 1..K}
    /\ tstate = TopologyState
    /\ last = NoCall
    /\ ncalls = 0
    /\ clients = <<>>
    /\ heard = <<>>
    /\ due = [purge |-> 0, check |-> 0]
    /\ HostsIdle
    /\ ForwarderIdle

\* the host of the request sits at src and the host that accepted it at
\* dst: the flows are installed on the switches of the path between them
InstallFlowsOn(src, dst) ==
    /\ ncalls < MaxInstalls
    /\ src # dst
    /\ LET K == Cardinality(switches)
           path == SwitchPath(K, src, dst)
           flow_info == [src_ip |-> "ip_" \o src, dst_ip |-> "ip_" \o dst,
                         in_port |-> PortNoOf(topo, "mac_" \o src),
                         src_mac |-> "mac_" \o src,
                         dst_mac |-> "mac_" \o dst]
           o == Protocol_install_flows(topo, switches, flows, path, flow_info)
       IN /\ flows' = o.flows
          /\ last' = [op |-> "install_flows",
                       args |-> [src |-> src, dst |-> dst, path |-> path],
                       ret |-> o.sent, raised |-> o.raised]
    /\ ncalls' = ncalls + 1
    /\ UNCHANGED <<nodes, links, interfaces, dps, requests, events,
                   responses, tasks, sspaths, now, orchPaths, PROTO_RETRIES,
                   nframes, nenv, hist, obs, topo, impl, tstate, appVars>>

\* a host was seen on another port of its switch and registers its
\* interface again: _set_main_interface stores the new port for the MAC
SeenAt(h, port) ==
    /\ topo' = [topo EXCEPT !.interfaces["mac_" \o h] = port @@ @]
    /\ topo' # topo
    /\ last' = [op |-> "set_main_interface", args |-> <<h>>, ret |-> None,
                 raised |-> FALSE]
    /\ UNCHANGED <<impl, tstate, ncalls, now, protoVars, appVars>>

FlowNext ==
    \/ \E src \in Ends, dst \in Ends : InstallFlowsOn(src, dst)
    \/ SeenAt("x", [dpid |-> Line[1], port_name |-> "p6", port_no |-> "6"])

FlowSpec == FlowInit /\ [][FlowNext]_vars

\* ------------------------------------------------------ the L2 forwarder
\* Two switches joined by their ports 2, a host behind port 1 of each. The
\* forwarder learns the hosts from the packet-ins, keeps the hops of the
\* shortest paths it computed and forgets them when a link or a switch goes.
\* mac_to_port is written by the handler and read nowhere: it is left out.
MaxEvents == 4
MaxDelay == 2
MaxSelects == 1
LossUnit == 2
MaxRest == 2
MaxRows == 2
MaxClock == 6
Datapaths == {"s1", "s2"}
HostMacs == {"m1", "m2"}
OFPP_FLOOD == "FLOOD"
OFP_NO_BUFFER == "NO_BUFFER"

\* DiGraph.add_edge, remove_edge, remove_node
add_edge(g, u, v, attr) ==
    [nodes |-> g.nodes \cup {u, v},
     edges |-> Put(g.edges, <<u, v>>, attr @@ Get(g.edges, <<u, v>>, <<>>))]

remove_edge(g, u, v) == [g EXCEPT !.edges = Pop(@, <<u, v>>)]

net_remove_node(g, n) ==
    [nodes |-> g.nodes \ {n},
     edges |-> [e \in {x \in DOMAIN g.edges : x[1] # n /\ x[2] # n}
                  |-> g.edges[e]]]

\* _link_add_handler: the two directions are added at once
link_added(g, src_dpid, src_port, dst_dpid, dst_port) ==
    LET g1 == add_edge(g, src_dpid, dst_dpid,
                       [out_port |-> src_port, in_port |-> dst_port])
    IN add_edge(g1, dst_dpid, src_dpid,
                [out_port |-> dst_port, in_port |-> src_port])

\* networkx.shortest_path: a path with the fewest hops; which one of several
\* is left to the library
SimplePaths(g, src, dst) ==
    {p \in UNION {[1..n -> g.nodes] : n \in 2..Cardinality(g.nodes)} :
        /\ p[1] = src
        /\ p[Len(p)] = dst
        /\ \A i \in 1..(Len(p) - 1) : <<p[i], p[i + 1]>> \in DOMAIN g.edges
        /\ \A i, j \in 1..Len(p) : i # j => p[i] # p[j]}

shortest_path(g, src, dst) ==
    {p \in SimplePaths(g, src, dst) :
        \A q \in SimplePaths(g, src, dst) : Len(p) <= Len(q)}

\* the hops saved for a path: (out_port, next node, in_port) for each node
\* between the two ends; a port missing on an edge is a KeyError, and the
\* hops saved before it stay
HopOK(g, path, i) ==
    /\ "out_port" \in DOMAIN g.edges[<<path[i], path[i + 1]>>]
    /\ "in_port" \in DOMAIN g.edges[<<path[i - 1], path[i]>>]

Hops(g, path) ==
    LET inner == 2..(Len(path) - 1)
        saved == {i \in inner : \A j \in inner : j <= i => HopOK(g, path, j)}
    IN [ok |-> saved = inner,
        hops |-> [d \in {path[i] : i \in saved} |->
                    LET i == CHOOSE k \in saved : path[k] = d
                    IN [out_port |-> g.edges[<<path[i], path[i + 1]>>].out_port,
                        next |-> path[i + 1],
                        in_port |-> g.edges[<<path[i - 1], path[i]>>].in_port]]]

\* _packet_in_handler: path is what shortest_path returns, <<>> when it
\* raises NetworkXNoPath; the result holds the graph, the saved hops and
\* the messages sent to the datapath
packet_in_handler(g, o, managed, dpid, in_port, src, dst, eth_type, buffer_id, path) ==
    LET quiet(g0, o0) == [net |-> g0, outs |-> o0, sent |-> {}]
        g1 == IF src \notin g.nodes
              THEN add_edge(add_edge(g, src, dpid, [in_port |-> in_port]),
                            dpid, src, [out_port |-> in_port])
              ELSE g
        routed == dst \in g1.nodes /\ <<src, dst>> \notin managed
        fresh == <<src, dst>> \notin DOMAIN o
        h == Hops(g1, path)
        o1 == IF routed /\ fresh /\ path # <<>>
              THEN Put(o, <<src, dst>>, h.hops)
              ELSE o
        kept == o1[<<src, dst>>]
        out_port == IF routed THEN kept[dpid].out_port ELSE OFPP_FLOOD
        flow == [type |-> "flow_add", dp |-> dpid, priority |-> 1,
                 in_port |-> in_port, eth_dst |-> dst, eth_src |-> src,
                 out_port |-> out_port, buffer_id |-> buffer_id]
        out == [type |-> "packet_out", dp |-> dpid, in_port |-> in_port,
                out_port |-> out_port, buffer_id |-> buffer_id]
    IN IF eth_type \in {"lldp", "arp"} THEN quiet(g, o)
       ELSE IF dst = DECOY_MAC \/ src = DECOY_MAC THEN quiet(g, o)
       ELSE IF routed /\ fresh /\ path = <<>> THEN quiet(g1, o)
       ELSE IF routed /\ fresh /\ ~h.ok THEN quiet(g1, o1)
       ELSE IF routed /\ (\/ dpid \notin DOMAIN kept
                           \/ in_port # kept[dpid].in_port)
       THEN quiet(g1, o1)
       ELSE IF out_port = OFPP_FLOOD
       THEN [net |-> g1, outs |-> o1, sent |-> {out}]
       ELSE IF buffer_id # OFP_NO_BUFFER
       THEN [net |-> g1, outs |-> o1, sent |-> {flow}]
       ELSE [net |-> g1, outs |-> o1, sent |-> {flow, out}]

\* the paths to pick from for a packet-in
PathChoices(g, dpid, in_port, src, dst) ==
    LET g1 == IF src \notin g.nodes
              THEN add_edge(add_edge(g, src, dpid, [in_port |-> in_port]),
                            dpid, src, [out_port |-> in_port])
              ELSE g
        found == IF dst \in g1.nodes THEN shortest_path(g1, src, dst) ELSE {}
    IN IF found = {} THEN {<<>>} ELSE found

\* a link-delete handler that forgets no path
OverHop_none(o, src_dpid, dst_dpid) == {}

OverHop_anyNext(o, src_dpid, dst_dpid) ==
    {k \in DOMAIN o : src_dpid \in DOMAIN o[k]}

\* the paths of the cache that go over the hop src_dpid -> dst_dpid
OverHop(o, src_dpid, dst_dpid) ==
    {k \in DOMAIN o : /\ src_dpid \in DOMAIN o[k]
                        /\ o[k][src_dpid].next = dst_dpid}

\* the flows deleted for a path that lost a link: both directions on every
\* datapath of the path that is connected
Deleted(o, registry, k) ==
    UNION {{[type |-> "flow_delete", dp |-> d, priority |-> 1,
             eth_src |-> k[1], eth_dst |-> k[2]],
            [type |-> "flow_delete", dp |-> d, priority |-> 1,
             eth_src |-> k[2], eth_dst |-> k[1]]} :
              d \in DOMAIN o[k] \cap registry}

ForwarderInit ==
    /\ ProtocolInit
    /\ orchPaths
    /\ PROTO_RETRIES = 1
    /\ impl = "app"
    /\ topo = Topology
    /\ tstate = TopologyState
    /\ last = NoCall
    /\ ncalls = 0
    /\ clients = <<>>
    /\ switches = Datapaths
    /\ heard = <<>>
    /\ due = [purge |-> 0, check |-> 0]
    /\ HostsIdle
    /\ net = link_added([nodes |-> {}, edges |-> <<>>], "s1", "2", "s2", "2")
    /\ outs = <<>>

\* what every step of the forwarder leaves alone
ForwarderFrame ==
    UNCHANGED <<nodes, links, interfaces, dps, requests, events, responses,
                tasks, flows, now, orchPaths, PROTO_RETRIES, nframes, nenv,
                hist, obs, topo, impl, tstate, clients, heard, due,
                host_ports, waiters, db,
                   retrying>>

PacketIn(dpid, in_port, src, dst, eth_type, buffer_id) ==
    /\ ncalls < MaxEvents
    /\ \E path \in PathChoices(net, dpid, in_port, src, dst) :
          LET r == packet_in_handler(net, outs, sspaths, dpid, in_port, src, dst,
                             eth_type, buffer_id, path)
          IN /\ net' = r.net
             /\ outs' = r.outs
             /\ last' = [op |-> "packet_in",
                          args |-> [dpid |-> dpid, in_port |-> in_port,
                                    src |-> src, dst |-> dst,
                                    eth_type |-> eth_type],
                          ret |-> r.sent, raised |-> FALSE]
    /\ ncalls' = ncalls + 1
    /\ UNCHANGED <<sspaths, switches>>
    /\ ForwarderFrame

LinkAdd(src_dpid, src_port, dst_dpid, dst_port) ==
    /\ ncalls < MaxEvents
    /\ net' = link_added(net, src_dpid, src_port, dst_dpid, dst_port)
    /\ last' = [op |-> "link_add", args |-> <<src_dpid, dst_dpid>>,
                 ret |-> {}, raised |-> FALSE]
    /\ ncalls' = ncalls + 1
    /\ UNCHANGED <<outs, sspaths, switches>>
    /\ ForwarderFrame

\* _link_delete_handler
LinkDelete(src_dpid, dst_dpid) ==
    /\ ncalls < MaxEvents
    /\ net' = remove_edge(net, src_dpid, dst_dpid)
    /\ outs' = [k \in DOMAIN outs \ OverHop(outs, src_dpid, dst_dpid)
                  |-> outs[k]]
    /\ last' = [op |-> "link_delete", args |-> <<src_dpid, dst_dpid>>,
                 ret |-> UNION {Deleted(outs, switches, k) :
                                  k \in OverHop(outs, src_dpid, dst_dpid)},
                 raised |-> FALSE]
    /\ ncalls' = ncalls + 1
    /\ UNCHANGED <<sspaths, switches>>
    /\ ForwarderFrame

\* the datapath joins the registry and _switch_enter_handler installs the
\* flow that drops IPv6
ForwarderSwitchEnter(dpid) ==
    /\ ncalls < MaxEvents
    /\ dpid \notin switches
    /\ switches' = switches \cup {dpid}
    /\ last' = [op |-> "switch_enter", args |-> <<dpid>>,
                 ret |-> {[type |-> "flow_add", dp |-> dpid, priority |-> 1,
                           eth_type |-> "ipv6"]},
                 raised |-> FALSE]
    /\ ncalls' = ncalls + 1
    /\ UNCHANGED <<net, outs, sspaths>>
    /\ ForwarderFrame

\* the datapath left the registry; _switch_leave_handler
ForwarderSwitchLeave(dpid) ==
    /\ ncalls < MaxEvents
    /\ dpid \in switches
    /\ switches' = switches \ {dpid}
    /\ net' = net_remove_node(net, dpid)
    /\ outs' = [k \in {x \in DOMAIN outs : dpid \notin DOMAIN outs[x]}
                  |-> outs[k]]
    /\ last' = [op |-> "switch_leave", args |-> <<dpid>>, ret |-> {},
                 raised |-> FALSE]
    /\ ncalls' = ncalls + 1
    /\ UNCHANGED sspaths
    /\ ForwarderFrame

\* the protocol installed the flows of a pair itself and marks the pair
MarkPath(src, dst) ==
    /\ ncalls < MaxEvents
    /\ <<src, dst>> \notin sspaths
    /\ sspaths' = sspaths \cup {<<src, dst>>}
    /\ last' = [op |-> "mark_path", args |-> <<src, dst>>, ret |-> {},
                 raised |-> FALSE]
    /\ ncalls' = ncalls + 1
    /\ UNCHANGED <<net, outs, switches>>
    /\ ForwarderFrame

ForwarderNext ==
    \/ \E dpid \in Datapaths, in_port \in {"1", "2"}, src \in HostMacs,
          buffer_id \in {"7", OFP_NO_BUFFER} :
          \E dst \in HostMacs \ {src} :
             PacketIn(dpid, in_port, src, dst, "ip", buffer_id)
    \/ PacketIn("s1", "1", "m1", "m2", "arp", OFP_NO_BUFFER)
    \/ PacketIn("s1", "1", "m1", DECOY_MAC, "ip", OFP_NO_BUFFER)
    \/ \E a \in Datapaths : \E b \in Datapaths \ {a} :
          LinkAdd(a, "2", b, "2")
    \/ \E a \in Datapaths : \E b \in Datapaths \ {a} : LinkDelete(a, b)
    \/ \E dpid \in Datapaths : ForwarderSwitchEnter(dpid)
    \/ \E dpid \in Datapaths : ForwarderSwitchLeave(dpid)
    \/ \E src \in HostMacs : \E dst \in HostMacs \ {src} :
          MarkPath(src, dst)

ForwarderSpec == ForwarderInit /\ [][ForwarderNext]_vars

\* ============================================================= properties
\* frames of type ty among the frames the last step emitted
OutOfType(ty) == {x \in 1..Len(hist.out) : hist.out[x].type = ty}

\* the last step handled an RRES that found the Request in HRES with another
\* host recorded as chosen
LateRRESStep(k) ==
    /\ hist.kind = "RRES"
    /\ hist.pre = HRES
    /\ requests[k].host_mac_ip \notin {None, hist.mac}

\* C1: once an RRES has moved the Request from RREQ to HRES, a later RRES for
\* the same key from a different host is answered with an RCAN frame to that
\* host, is never answered with RACK, and promotes no second host.
C1_LateRRESIsCancelled ==
    \A k \in DOMAIN requests :
        LateRRESStep(k) =>
            /\ ~hist.promoted
            /\ OutOfType(RACK) = {}
            /\ can_sendp(hist.mac) =>
                   hist.out = <<Frame(RCAN, hist.mac, hist.att, None)>>

\* C2: whenever an RRES is promoted, its sender is one of the nodes that
\* NodeSelector returned to the placement run of the current attempt.
C2_PromotedIsCandidate ==
    (hist.kind = "RRES" /\ hist.promoted) =>
        /\ obs.run # 0
        /\ \E x \in 1..Len(tasks[obs.run].hosts) :
               tasks[obs.run].hosts[x] = get_by_mac_node(hist.mac)

\* C3: with orchestrator paths, once a Request was promoted to HRES and its
\* placement task has finished, a path is recorded on the Request, the path
\* ends at the chosen host (host interfaces carry the id of their node as
\* mac) and every hop of it was a Link of the topology at the promotion.
C3_PathOfChosenHost ==
    \A k \in DOMAIN requests :
        (/\ orchPaths
         /\ requests[k].state = HRES
         /\ requests[k].host_mac_ip # None
         /\ obs.run # 0
         /\ tasks[obs.run].pc = "done")
        => LET p == requests[k].path
           IN /\ p # <<>>
              /\ p[Len(p)] = requests[k].host_mac_ip
              /\ \A x \in 1..(Len(p) - 1) : <<p[x], p[x + 1]>> \in obs.linksAt

\* C4: in any placement run and for any PROTO_RETRIES >= 1, the candidate
\* being tried has been sent at most PROTO_RETRIES RREQ frames.
C4_BoundedRetries ==
    \A t \in 1..MaxTasks : tasks[t].nsent <= PROTO_RETRIES

\* a candidate has been sent its last allowed RREQ after an earlier one timed
\* out, under a setting that allows a retry
C4_Witness ==
    \E t \in 1..MaxTasks :
        /\ tasks[t].pc = "wait"
        /\ PROTO_RETRIES >= 2
        /\ tasks[t].nsent = PROTO_RETRIES
        /\ tasks[t].rt = 0

\* Request k is in RREQ
InRREQ(k) == k \in DOMAIN requests /\ requests[k].state = RREQ

\* C5: with timers that fire and tasks that are scheduled, every Request that
\* enters RREQ eventually leaves it, whatever frames arrive or are lost and
\* whatever is removed from the topology meanwhile.
C5_LeavesRREQ ==
    \A k \in ReqKeys :
        InRREQ(k) ~> ~InRREQ(k)

\* the last step ended a run all of whose candidates let every one of their
\* PROTO_RETRIES sends time out or replied RCAN
RunExhausted ==
    /\ hist.kind = "task"
    /\ hist.fin
    /\ tasks[hist.t].exh
    /\ tasks[hist.t].i >= 1

C9_LateRRESChangesNothing ==
    [][\A k \in DOMAIN requests :
          (/\ hist'.kind = "RRES"
           /\ nframes' = nframes + 1
           /\ requests[k].state = HRES
           /\ requests[k].host_mac_ip \notin {None, hist'.mac})
          => requests' = requests /\ nodes' = nodes]_vars

\* a late RRES was handled at a later clock reading than the promotion
C9_Witness ==
    \E k \in DOMAIN requests :
        /\ LateRRESStep(k)
        /\ hist.att \in DOMAIN requests[k].attempts
        /\ requests[k].attempts[hist.att].rres_at # 0
        /\ requests[k].attempts[hist.att].rres_at < now

\* task t waits for the reply of mac to the RREQ of Request k
Awaits(t, k, mac) ==
    /\ tasks[t].pc = "wait"
    /\ tasks[t].key = k
    /\ tasks[t].mac = mac
    /\ events[<<k, mac>>] = t

NamedConditions(req) ==
    /\ req.eth_dst = DECOY_MAC
    /\ req.ip_dst = DECOY_IP
    /\ req.req_id # ""
    /\ req.ip_src # DECOY_IP
    /\ req.ip_src # DEFAULT_IP

\* a packet-in that is not processed changes no Request, creates none, starts
\* no run and sends no frame
DroppedWithoutTrace ==
    /\ requests' = requests
    /\ tasks' = tasks
    /\ nodes' = nodes
    /\ events' = events
    /\ responses' = responses
    /\ flows' = flows
    /\ hist'.out = <<>>

\* C12 as stated: a packet-in is processed as a protocol frame exactly when
\* it is addressed to the decoy MAC and IP, carries a req_id and comes from
\* neither the decoy nor the default address; otherwise it leaves no trace.
C12_ProcessedIffNamed ==
    [][nframes' = nframes + 1 =>
          /\ hist'.kind # "drop" <=> NamedConditions(hist'.pkt)
          /\ ~NamedConditions(hist'.pkt) => DroppedWithoutTrace]_vars

\* C12 amended: a packet-in is processed as a protocol frame exactly when it
\* consists of an Ether, an IP and a MyProtocol layer and of no other layer
\* and meets the named conditions; otherwise it leaves no trace.
C12_ProcessedIffWellFormed ==
    [][nframes' = nframes + 1 =>
          LET req == hist'.pkt
              wellFormed == /\ req.layers = {"Ether", "IP", "MyProtocol"}
                            /\ NamedConditions(req)
          IN /\ hist'.kind # "drop" <=> wellFormed
             /\ ~wellFormed => DroppedWithoutTrace]_vars

\* a packet from the default address was turned down while a Request was
\* being placed
C12_Witness ==
    /\ hist.kind = "drop"
    /\ hist.pkt.ip_src = DEFAULT_IP
    /\ InRREQ("k1")

\* C13: every Link of the topology has both of its endpoint Interfaces
\* registered on their nodes: once delete_interface(node, name) has returned,
\* no Link leaves or reaches that interface, also when other links of the
\* node were deleted before.
LinksAt(g, id, name) ==
    {e \in DOMAIN g.edges :
        \/ e[1] = id /\ g.edges[e].src_port.name = name
        \/ e[2] = id /\ g.edges[e].dst_port.name = name}

C13_NoLinkAtDeletedInterface ==
    last.op = "delete_interface"
        => LinksAt(topo, last.args[1], last.args[2]) = {}

\* C14: once delete_node(id) has returned, the node is not in the graph, no
\* Link starts or ends at id, get_by_mac and get_by_ip return id for no
\* address, and get_dst_at_port(id, p) returns nothing for every port p.
C14_NodeGoneEverywhere ==
    last.op = "delete_node"
        => LET id == last.args[1]
           IN /\ Topology_get_node(topo, id) = None
              /\ \A e \in DOMAIN topo.edges : e[1] # id /\ e[2] # id
              /\ \A mac \in Macs : Topology_get_by_mac(topo, mac) # id
              /\ \A ip \in Ips : Topology_get_by_ip(topo, ip) # id
              /\ \A p \in PortRefs :
                    Topology_get_dst_at_port(topo, id, p) = None

\* C15: get_by_mac(mac, 'node_id') returns the node of every registered
\* Interface that has a MAC, and once delete_interface has taken an Interface
\* off its node, get_by_mac no longer returns that node for its MAC.
C15_MacIndexFollowsInterfaces ==
    /\ \A id \in DOMAIN topo.nodes :
          \A name \in DOMAIN topo.nodes[id].interfaces :
              LET mac == topo.nodes[id].interfaces[name].mac
              IN mac # None => Topology_get_by_mac(topo, mac) = id
    /\ last.op = "delete_interface"
          => Topology_get_by_mac(topo, MacOf[last.args[1]][last.args[2]])
                # last.args[1]

\* C16: the port index follows the links: for every Link from src to dst
\* with source Interface p, get_dst_at_port(src, p.name) and
\* get_dst_at_port(src, p.num) return dst and get_link_at_port returns that
\* Link; deleting one link of a node leaves its other links reachable.
C16_PortIndexFollowsLinks ==
    \A e \in DOMAIN topo.edges :
        LET p == topo.edges[e].src_port
        IN /\ Topology_get_dst_at_port(topo, e[1], p.name) = e[2]
           /\ Topology_get_dst_at_port(topo, e[1], p.num) = e[2]
           /\ Topology_get_link_at_port(topo, e[1], p.name) = e
           /\ Topology_get_link_at_port(topo, e[1], p.num) = e

\* C17: a call that names something the topology does not have is
\* refused: add_interface on an unknown node, add_link with an unknown node
\* or an unknown port on either side, update_node_specs on an unknown node
\* and update_link_specs on an unknown link return False and leave the
\* topology as it was.
NamesUnknown(g, call) ==
    LET a == call.args
    IN CASE call.op = "add_interface" -> a[1] \notin DOMAIN g.nodes
         [] call.op = "add_link" ->
               \/ a[1] \notin DOMAIN g.nodes
               \/ a[2] \notin DOMAIN g.nodes
               \/ Topology_get_interface(g, a[1], a[3]) = None
               \/ Topology_get_interface(g, a[2], a[4]) = None
         [] call.op = "update_node_specs" -> a[1] \notin DOMAIN g.nodes
         [] call.op = "update_link_specs" ->
               <<a[1], a[2]>> \notin DOMAIN g.edges
         [] OTHER -> FALSE

C17_UnknownIsRefused ==
    [][(ncalls' = ncalls + 1 /\ NamesUnknown(topo, last'))
          => (last'.ret = FALSE /\ topo' = topo)]_vars

C17_Witness ==
    /\ last.op = "add_link"
    /\ last.ret = FALSE
    /\ last.args[1] \in DOMAIN topo.nodes
    /\ last.args[2] \in DOMAIN topo.nodes
    /\ Topology_get_interface(topo, last.args[1], last.args[3]) # None
    /\ Topology_get_interface(topo, last.args[2], last.args[4]) = None
    /\ topo.edges # <<>>

\* C18: the specs timestamp of a node, of an interface and of a link never
\* decreases, whatever update_node_specs, update_interface_specs,
\* update_link_specs and the monitor ticks do: an update that carries a
\* timestamp earlier than the stored one does not move the specs back.
C18_TimestampNeverDecreases ==
    [][/\ \A id \in DOMAIN topo.nodes \cap DOMAIN topo'.nodes :
            /\ topo'.nodes[id].specs.timestamp
                  >= topo.nodes[id].specs.timestamp
            /\ \A name \in DOMAIN topo.nodes[id].interfaces
                           \cap DOMAIN topo'.nodes[id].interfaces :
                  PortSpecs(topo', id, name).timestamp
                     >= PortSpecs(topo, id, name).timestamp
       /\ \A e \in DOMAIN topo.edges \cap DOMAIN topo'.edges :
            topo'.edges[e].specs.timestamp
               >= topo.edges[e].specs.timestamp]_vars

\* C19: in every reachable state every Link L has
\* L.capacity = min(src_port.capacity, dst_port.capacity) and
\* L.bandwidth = min(src_port.bandwidth_up, dst_port.bandwidth_down),
\* for the link that leaves an updated port and for the link that reaches it.
C19_LinkIsMinOfItsPorts ==
    \A e \in DOMAIN topo.edges :
        LET L == topo.edges[e]
            S == PortSpecs(topo, e[1], L.src_port.name)
            D == PortSpecs(topo, e[2], L.dst_port.name)
        IN /\ L.specs.capacity = Min(S.capacity, D.capacity)
           /\ L.specs.bandwidth = Min(S.bandwidth_up, D.bandwidth_down)

\* C20: from an API update_interface_specs of (node, port) until the window
\* checker has closed the window of that key, no tick of the bandwidth and
\* loss monitor changes capacity, bandwidth_up, bandwidth_down, tx_packets or
\* rx_packets of that interface.
Measured(specs) == Restrict(specs, BwFields \cup PacketFields)

C20_OpenWindowShieldsInterface ==
    [][(ncalls' = ncalls + 1 /\ last'.op = "monitor_tick")
          => \A key \in DOMAIN tstate.block_app_update :
                Measured(PortSpecs(topo', key[1], key[2]))
                   = Measured(PortSpecs(topo, key[1], key[2]))]_vars

\* a tick found the window of a.p1 open and wrote port 2 of the switch only
C20_Witness ==
    /\ last.op = "monitor_tick"
    /\ <<"a", "p1">> \in DOMAIN tstate.block_app_update
    /\ PortSpecs(topo, "a", "p1").capacity = 2
    /\ PortSpecs(topo, "a", "p2").capacity = 3

\* C21: while the iperf window of a port is open, a tick of the bandwidth
\* and loss monitor does not overwrite capacity, bandwidth_up or
\* bandwidth_down of that port with the readings of the network monitor.
C21_IperfWindowShieldsPort ==
    [][(ncalls' = ncalls + 1 /\ last'.op = "monitor_tick")
          => \A key \in DOMAIN tstate.iperf3_update :
                Restrict(PortSpecs(topo', key[1], key[2]), BwFields)
                   = Restrict(PortSpecs(topo, key[1], key[2]), BwFields)]_vars

\* C22: every periodic loop of the state updater keeps ticking: a tick that
\* meets an unexpected reading (a port state that is none of Down, Blocked,
\* Live; free bandwidth reported for a port without a capacity feature) is
\* absorbed, so no loop ever ends.
C22_LoopsKeepTicking == tstate.loops = Loops

\* C23: the heartbeat checker deletes a node only if the node is not in the
\* datapath registry and more than the heartbeat timeout has passed since its
\* registration or its last heartbeat, whichever is later.
C23_DeletedOnlyAfterSilence ==
    [][(ncalls' = ncalls + 1 /\ last'.op = "check_clients")
          => \A id \in DOMAIN topo.nodes \ DOMAIN topo'.nodes :
                /\ id \notin switches
                /\ now - heard[id] > UDP_TIMEOUT]_vars

\* C24: once the interface of a host is registered with its MAC and the MAC
\* was reported on a switch port, in either order and however long one came
\* after the other, both Links host->switch and switch->host eventually
\* exist (nothing is deleted in this specification).
C24_HostLinksEventually ==
    \A id \in Stitched :
       (/\ MacOf[id]["p1"] \in DOMAIN topo.interfaces
        /\ MacOf[id]["p1"] \in DOMAIN host_ports)
          ~> (/\ <<id, "a">> \in DOMAIN topo.edges
              /\ <<"a", id>> \in DOMAIN topo.edges)

\* the flows of a datapath from one address to the other
FlowsOn(dp, src_ip, dst_ip) ==
    {f \in flows : f.dp = dp /\ f.ipv4_src = src_ip /\ f.ipv4_dst = dst_ip}

\* C25: after the flows of a path [S, sw1, ..., swK, H] were installed,
\* every switch of the path holds exactly one flow from S to H and exactly
\* one from H to S, 2K flows were installed in all, and for K = 1 the flow
\* from S to H matches the port S is on and outputs on the port H is on,
\* the flow from H to S being its mirror.
C25_OneFlowEachWayPerSwitch ==
    (last.op = "install_flows" /\ ~last.raised) =>
        LET path == last.args.path
            S == "ip_" \o last.args.src
            H == "ip_" \o last.args.dst
            at_S == PortNoOf(topo, "mac_" \o last.args.src)
            at_H == PortNoOf(topo, "mac_" \o last.args.dst)
        IN /\ Len(path) >= 1
           /\ \A i \in 1..Len(path) :
                 /\ Cardinality(FlowsOn(path[i], S, H)) = 1
                 /\ Cardinality(FlowsOn(path[i], H, S)) = 1
           /\ Len(last.ret) = 2 * Len(path)
           /\ {last.ret[i] : i \in 1..Len(last.ret)}
                 = UNION {FlowsOn(path[i], S, H) \cup FlowsOn(path[i], H, S) :
                            i \in 1..Len(path)}
           /\ Len(path) = 1 =>
                 /\ \A f \in FlowsOn(path[1], S, H) :
                       f.in_port = at_S /\ f.out_port = at_H
                 /\ \A f \in FlowsOn(path[1], H, S) :
                       f.in_port = at_H /\ f.out_port = at_S

\* flows were installed along three switches after the host of the request
\* had moved to another port
C25_Witness ==
    /\ last.op = "install_flows"
    /\ ~last.raised
    /\ Len(last.args.path) = MaxLine
    /\ Len(last.ret) = 2 * MaxLine
    /\ PortNoOf(topo, "mac_x") = "6"
    /\ \E f \in flows : f.dp = Line[1] /\ f.in_port = "6"

\* C26: for a data packet-in whose (src, dst) pair is marked as managed by
\* the orchestrator the L2 forwarder sends nothing, neither a flow nor a
\* packet-out; and it floods a packet only when the destination MAC is not
\* in its graph.
C26_ManagedPairIsLeftAlone ==
    [][(ncalls' = ncalls + 1 /\ last'.op = "packet_in"
          /\ last'.args.eth_type = "ip"
          /\ last'.args.dst # DECOY_MAC)
          => /\ <<last'.args.src, last'.args.dst>> \in sspaths
                   => last'.ret = {}
             /\ (\E msg \in last'.ret : msg.out_port = OFPP_FLOOD)
                   => last'.args.dst \notin net.nodes]_vars

\* C27: when the L2 forwarder has handled the deletion of the link A -> B,
\* no path of its cache goes over the hop A -> B; for every path that did,
\* a flow deletion for (src, dst) and one for (dst, src) went to every
\* connected switch of the path, and nothing else was sent; the paths that
\* did not use the hop are in the cache as before.
C27_LinkDeleteForgetsPaths ==
    [][(ncalls' = ncalls + 1 /\ last'.op = "link_delete")
          => LET A == last'.args[1]
                 B == last'.args[2]
                 over == {k \in DOMAIN outs :
                             \E d \in DOMAIN outs[k] :
                                d = A /\ outs[k][d].next = B}
             IN /\ \A k \in DOMAIN outs' :
                      \A d \in DOMAIN outs'[k] :
                         ~(d = A /\ outs'[k][d].next = B)
                /\ last'.ret =
                      {[type |-> "flow_delete", dp |-> x[1], priority |-> 1,
                        eth_src |-> x[2], eth_dst |-> x[3]] :
                          x \in {y \in switches \X HostMacs \X HostMacs :
                                    \E k \in over :
                                       /\ y[1] \in DOMAIN outs[k]
                                       /\ <<y[2], y[3]>>
                                             \in {k, <<k[2], k[1]>>}}}
                /\ \A k \in DOMAIN outs \ over :
                      k \in DOMAIN outs' /\ outs'[k] = outs[k]]_vars

\* a link was deleted while a path over it and a path the other way were in
\* the cache: the first one is gone, its flows were deleted on the two
\* switches, the second one is still there
C27_Witness ==
    /\ last.op = "link_delete"
    /\ last.args = <<"s1", "s2">>
    /\ Cardinality(last.ret) = 4
    /\ <<"m1", "m2">> \notin DOMAIN outs
    /\ <<"m2", "m1">> \in DOMAIN outs

\* ------------------------------------------------- the selectors, called
\* selection.py: the strategies and the weights a caller may name
ALL == "ALL"
FIRST == "FIRST"
BEST == "BEST"
Strategies == {"", ALL, FIRST, BEST}
HOP_WEIGHT == "HOP"
DELAY_WEIGHT == "DELAY"
Weights == {HOP_WEIGHT, DELAY_WEIGHT}

\* what a call hands back: a list, or None when the function ends without
\* reaching a return statement
ListOf(l) == [list |-> l]
NoValue == [none |-> TRUE]

\* Topology.add_node: the threshold the node gets; kw holds the threshold
\* argument when the caller gave one
add_node_threshold(kw) ==
    IF "threshold" \in DOMAIN kw THEN kw.threshold ELSE 1

\* a node as add_node leaves it, after its specs were reported: state,
\* threshold, and total and free amounts of cpu, memory and disk
AddedNode(st, kw, total, free) ==
    Node(st, add_node_threshold(kw), total, free, total, free, total, free,
         None)

\* the nodes the selector may meet: added with the default threshold,
\* added with threshold 0, busy, down
Profiles ==
    {AddedNode(TRUE, <<>>, 4, 4),
     AddedNode(TRUE, [threshold |-> 0], 4, 4),
     AddedNode(TRUE, [threshold |-> 0], 4, 0),
     AddedNode(FALSE, [threshold |-> 0], 4, 4)}

\* _SimpleNodeSelection.select(topo, req, strategy)
SimpleNodeSelection_select(src, c, strategy) ==
    LET matches == SimpleNodeSelection(src, c)
    IN IF strategy \in {"", ALL} THEN ListOf(matches)
       ELSE IF strategy = FIRST
       THEN IF matches # <<>> THEN ListOf(<<matches[1]>>) ELSE NoValue
       ELSE ListOf(<<>>)

\* the pairs of nodes a cable may join
Cables == {<<"s", "sw1">>, <<"sw1", "h1">>, <<"sw1", "h2">>, <<"s", "h2">>}

\* the Topology whose graph holds the four nodes and, for each cable laid, a
\* Link in each direction with the delay the state updater measured on it
GraphOf(delay) ==
    LET ends == DOMAIN delay \cup {<<e[2], e[1]>> : e \in DOMAIN delay}
        cable(e) == IF e \in DOMAIN delay THEN e ELSE <<e[2], e[1]>>
        port(a, b) == [name |-> "to_" \o b, num |-> "1"]
    IN [Topology EXCEPT
          !.nodes = [n \in NodeIds |-> [interfaces |-> <<>>,
                                        main_interface |-> <<>>,
                                        specs |-> NodeSpecs]],
          !.edges = [e \in ends |->
                       [Link(e[1], e[2], port(e[1], e[2]), port(e[2], e[1]),
                             TRUE)
                          EXCEPT !.specs.delay = delay[cable(e)]]]]

\* the simple paths of the graph that start at src
PathsOut(g, src) ==
    {p \in UNION {[1..n -> DOMAIN g.nodes] :
                     n \in 1..Cardinality(DOMAIN g.nodes)} :
        /\ p[1] = src
        /\ \A i \in 1..(Len(p) - 1) : <<p[i], p[i + 1]>> \in DOMAIN g.edges
        /\ \A i, j \in 1..Len(p) : i # j => p[i] # p[j]}

\* weight_func(u, v, d): the delay of the link under DELAY, else 1
weight_func(g, weight, u, v) ==
    IF weight = DELAY_WEIGHT THEN g.edges[<<u, v>>].specs.delay ELSE 1

\* the sum of the weights along p
RECURSIVE PathLength(_, _, _)
PathLength(g, weight, p) ==
    IF Len(p) < 2 THEN 0
    ELSE weight_func(g, weight, p[1], p[2])
         + PathLength(g, weight, Tail(p))

\* of the paths W, for every node one of them ends at, the shortest that
\* ends there and its length
ShortestOf(g, weight, W) ==
    [t \in {p[Len(p)] : p \in W} |->
        LET best == CHOOSE p \in W :
                       /\ p[Len(p)] = t
                       /\ \A q \in W :
                             q[Len(q)] = t =>
                                PathLength(g, weight, p)
                                    <= PathLength(g, weight, q)
        IN [path |-> best, length |-> PathLength(g, weight, best)]]

\* networkx.single_source_dijkstra(graph, src, cutoff, weight): for every
\* node whose distance from src is within the cutoff (any distance when
\* there is none), its distance and a path of that length
single_source_dijkstra(g, src, cutoff, weight) ==
    CHOOSE found \in
        {ShortestOf(g, weight, W) :
            W \in {{p \in PathsOut(g, src) :
                      "cutoff" \in DOMAIN cutoff
                          => PathLength(g, weight, p) <= cutoff.cutoff}}} :
        TRUE

\* insort(a, x, key=length): bisect_left finds the place before the
\* entries of a that are not shorter than x, and x is inserted there
insort(a, x) ==
    LET bslindex == Cardinality({i \in 1..Len(a) : a[i].length < x.length})
    IN SubSeq(a, 1, bslindex) \o <<x>> \o SubSeq(a, bslindex + 1, Len(a))

\* the loop of strategy ALL over the targets from the i-th on
RECURSIVE AllTargets(_, _, _, _)
AllTargets(found, targets, i, ret) ==
    IF i > Len(targets) THEN ret
    ELSE IF targets[i] \in DOMAIN found
    THEN AllTargets(found, targets, i + 1, insort(ret, found[targets[i]]))
    ELSE AllTargets(found, targets, i + 1, ret)

\* the loop of strategy BEST: best holds best_length, and best_path once
\* it is not None
RECURSIVE BestTarget(_, _, _, _)
BestTarget(found, targets, i, best) ==
    IF i > Len(targets) THEN best
    ELSE IF /\ targets[i] \in DOMAIN found
            /\ found[targets[i]].length < best.length
    THEN BestTarget(found, targets, i + 1, found[targets[i]])
    ELSE BestTarget(found, targets, i + 1, best)

\* _DijkstraPathSelection.select(topo, targets, req, weight, strategy)
DijkstraPathSelection_select(g, targets, src, c, weight, strategy) ==
    LET cutoff == IF weight = DELAY_WEIGHT
                  THEN [cutoff |-> cos_dict[c].max_delay] ELSE <<>>
    IN IF strategy \in {"", ALL}
       THEN CHOOSE r \in {ListOf(AllTargets(found, targets, 1, <<>>)) :
                found \in {single_source_dijkstra(g, src, cutoff, weight)}} :
                TRUE
       ELSE IF strategy = BEST
       THEN CHOOSE r \in {ListOf(<<BestTarget(found, targets, 1,
                                              [length |-> Inf])>>) :
                found \in {single_source_dijkstra(g, src, cutoff, weight)}} :
                TRUE
       ELSE ListOf(<<>>)

\* the lists of targets a caller may pass
TargetLists == {<<>>, <<"h1">>, <<"h2">>, <<"h1", "h2">>, <<"h2", "h1">>}

\* the selectors are called on a topology that holds the source, the switch
\* and two hosts, each host with one of the profiles, and any of the cables
\* with any delay up to MaxDelay; a call reads the topology and writes
\* nothing, so the calls after the first see what the first one saw
SelectInit ==
    /\ now = 1
    /\ \E p1 \in Profiles, p2 \in Profiles :
          nodes = [n \in NodeIds |->
                     IF n = Sw THEN Node(TRUE, 1, 0, 0, 0, 0, 0, 0, None)
                     ELSE IF n = Src THEN AddedNode(TRUE, <<>>, 4, 4)
                     ELSE IF n = "h1" THEN p1 ELSE p2]
    /\ \E laid \in SUBSET Cables :
          \E delay \in [laid -> 1..MaxDelay] : topo = GraphOf(delay)
    /\ links = {}
    /\ interfaces = <<>>
    /\ dps = {}
    /\ requests = <<>>
    /\ events = [k \in Keys |-> 0]
    /\ responses = [k \in Keys |-> 0]
    /\ tasks = [t \in 1..MaxTasks |-> FreeTask]
    /\ sspaths = {}
    /\ flows = {}
    /\ orchPaths = TRUE
    /\ PROTO_RETRIES = 1
    /\ nframes = 0
    /\ nenv = 0
    /\ hist = Idle("init")
    /\ obs = [run |-> 0, linksAt |-> {}, sent |-> {}, gaveUp |-> FALSE,
              stale |-> {}]
    /\ impl = "model"
    /\ tstate = TopologyState
    /\ last = NoCall
    /\ ncalls = 0
    /\ AppsIdle

\* NodeSelector(SIMPLE).select(topo, req, strategy) for a request of the
\* source with class of service c
SelectNodes(c, strategy) ==
    /\ ncalls < MaxSelects
    /\ last' = [op |-> "NodeSelector.select",
                 args |-> [src |-> Src, cos |-> c, strategy |-> strategy],
                 ret |-> SimpleNodeSelection_select(Src, c, strategy),
                 raised |-> FALSE]
    /\ ncalls' = ncalls + 1
    /\ UNCHANGED <<impl, topo, tstate, now, protoVars, appVars>>

\* PathSelector(DIJKSTRA).select(topo, targets, req, weight, strategy)
SelectPaths(targets, c, weight, strategy) ==
    /\ ncalls < MaxSelects
    /\ last' = [op |-> "PathSelector.select",
                 args |-> [src |-> Src, cos |-> c, strategy |-> strategy,
                           targets |-> targets, weight |-> weight],
                 ret |-> DijkstraPathSelection_select(topo, targets, Src, c,
                                                      weight, strategy),
                 raised |-> FALSE]
    /\ ncalls' = ncalls + 1
    /\ UNCHANGED <<impl, topo, tstate, now, protoVars, appVars>>

SelectNext ==
    \/ \E c \in CosIds, strategy \in Strategies : SelectNodes(c, strategy)
    \/ \E targets \in TargetLists, c \in CosIds, weight \in Weights,
          strategy \in Strategies :
          SelectPaths(targets, c, weight, strategy)

SelectSpec == SelectInit /\ [][SelectNext]_vars


\* the three headroom inequalities of node n for class of service c
Headroom(n, c) ==
    /\ nodes[n].cpu_free - cos_dict[c].min_cpu
          >= nodes[n].cpu_count * nodes[n].threshold
    /\ nodes[n].memory_free - cos_dict[c].min_ram
          >= nodes[n].memory_total * nodes[n].threshold
    /\ nodes[n].disk_free - cos_dict[c].min_disk
          >= nodes[n].disk_total * nodes[n].threshold

\* C28: NodeSelector SIMPLE returns, under ALL, exactly the nodes that are
\* not the request source, are up and meet the three headroom inequalities;
\* under FIRST a list holding only the first of them in iteration order, or
\* an empty list when there is none; under any other strategy an empty list
C28_SimpleSelectsByStrategy ==
    last.op = "NodeSelector.select" =>
        LET ok(n) == /\ n # last.args.src
                     /\ nodes[n].state = TRUE
                     /\ Headroom(n, last.args.cos)
            want == SelectSeq(NodeOrder, ok)
        IN IF last.args.strategy \in {"", ALL} THEN last.ret = ListOf(want)
           ELSE IF last.args.strategy = FIRST
           THEN last.ret = ListOf(IF want = <<>> THEN <<>>
                                  ELSE <<want[1]>>)
           ELSE last.ret = ListOf(<<>>)

\* C29: a node that was added with the default threshold, is up, is not the
\* request source, and whose free cpu, memory and disk are each at least
\* the minimum of the class of service, is among the nodes NodeSelector
\* SIMPLE returns
C29_DefaultThresholdIsEligible ==
    (last.op = "NodeSelector.select" /\ last.args.strategy \in {"", ALL}) =>
        \A n \in DOMAIN nodes \ {last.args.src} :
            (/\ nodes[n].threshold = add_node_threshold(<<>>)
             /\ nodes[n].state = TRUE
             /\ nodes[n].cpu_free >= cos_dict[last.args.cos].min_cpu
             /\ nodes[n].memory_free >= cos_dict[last.args.cos].min_ram
             /\ nodes[n].disk_free >= cos_dict[last.args.cos].min_disk)
            => \E i \in 1..Len(last.ret.list) : last.ret.list[i] = n

\* the node ids in ascending order
IdOrder == <<"h1", "h2", "s", "sw1">>
IdRank(n) == CHOOSE i \in 1..Len(IdOrder) : IdOrder[i] = n

\* the target an entry of the result leads to
TargetOf(entry) == entry.path[Len(entry.path)]

\* C30: PathSelector DIJKSTRA returns, under ALL, one entry per target that
\* is reachable from the request source (within max_delay when the weight
\* is DELAY), the entries in non-decreasing order of length and those of
\* equal length in ascending order of target id; under BEST the single
\* entry of minimum length, and no entry when no target is reachable
C30_DijkstraOrderAndBest ==
    last.op = "PathSelector.select" =>
        LET a == last.args
            cutoff == IF a.weight = DELAY_WEIGHT
                      THEN [cutoff |-> cos_dict[a.cos].max_delay] ELSE <<>>
            found == single_source_dijkstra(topo, a.src, cutoff, a.weight)
            reach == {a.targets[i] : i \in 1..Len(a.targets)}
                         \cap DOMAIN found
            r == last.ret.list
        IN IF a.strategy \in {"", ALL}
           THEN /\ Len(r) = Cardinality(reach)
                /\ {TargetOf(r[i]) : i \in 1..Len(r)} = reach
                /\ \A i \in 1..Len(r) :
                      r[i].length = found[TargetOf(r[i])].length
                /\ \A i, j \in 1..Len(r) :
                      i < j =>
                         \/ r[i].length < r[j].length
                         \/ /\ r[i].length = r[j].length
                            /\ IdRank(TargetOf(r[i])) < IdRank(TargetOf(r[j]))
           ELSE IF a.strategy = BEST
           THEN IF reach = {} THEN r = <<>>
                ELSE /\ Len(r) = 1
                     /\ "path" \in DOMAIN r[1]
                     /\ TargetOf(r[1]) \in reach
                     /\ \A t \in reach : r[1].length <= found[t].length
           ELSE TRUE


\* ------------------------------------------------ the least-cost selector
\* a number that is not finite: float('inf')
InfCost == [inf |-> TRUE]

\* a quotient n / d of integers, kept exact with its sign in n
Quot(n, d) == IF d < 0 THEN [n |-> 0 - n, d |-> 0 - d] ELSE [n |-> n, d |-> d]

\* a < b on costs, as Python compares floats
CostLess(a, b) ==
    IF "inf" \in DOMAIN a THEN FALSE
    ELSE IF "inf" \in DOMAIN b THEN TRUE
    ELSE a.n * b.d < b.n * a.d

\* the sum of field f over the links of the path
RECURSIVE SumOver(_, _, _)
SumOver(g, path, f) ==
    IF Len(path) < 2 THEN 0
    ELSE g.edges[<<path[1], path[2]>>].specs[f] + SumOver(g, Tail(path), f)

\* capacity - bandwidth summed over the links of the path
RECURSIVE UsedOver(_, _)
UsedOver(g, path) ==
    IF Len(path) < 2 THEN 0
    ELSE g.edges[<<path[1], path[2]>>].specs.capacity
         - g.edges[<<path[1], path[2]>>].specs.bandwidth
         + UsedOver(g, Tail(path))

\* the smallest capacity of the links of the path, Inf for none
RECURSIVE MinCapacity(_, _)
MinCapacity(g, path) ==
    IF Len(path) < 2 THEN Inf
    ELSE Min(g.edges[<<path[1], path[2]>>].specs.capacity,
             MinCapacity(g, Tail(path)))

\* the product of (1 - loss_rate) over the links of the path, in
\* LossUnit-ths per link: the numerator, the denominator being
\* LossUnit ^ (Len(path) - 1)
RECURSIVE KeptOver(_, _)
KeptOver(g, path) ==
    IF Len(path) < 2 THEN 1
    ELSE (LossUnit - g.edges[<<path[1], path[2]>>].specs.loss_rate)
         * KeptOver(g, Tail(path))

RECURSIVE Power(_, _)
Power(b, k) == IF k = 0 THEN 1 ELSE b * Power(b, k - 1)

\* _LeastCostPathSelection.select.calc_cost(path), with the try / except
\* around it: a division by zero raises and the cost is float('inf')
calc_cost(g, c, path) ==
    LET Ct == MinCapacity(g, path)
        Bw == UsedOver(g, path)
        Dp == SumOver(g, path, "delay")
        Jp == SumOver(g, path, "jitter")
        whole == Power(LossUnit, Len(path) - 1)
        lost == whole - KeptOver(g, path)
        \* LRp as lrn / lrd; max_loss_rate when no link loses anything
        lrn == IF lost = 0 THEN cos_dict[c].max_loss_rate ELSE lost
        lrd == IF lost = 0 THEN LossUnit ELSE whole
        BWc == cos_dict[c].min_bandwidth
        denom == Ct - (Bw + BWc)
        \* CDp * CJp * CLRp as pn / pd
        pn == cos_dict[c].max_delay * cos_dict[c].max_jitter
                 * cos_dict[c].max_loss_rate * lrd
        pd == Dp * Jp * LossUnit * lrn
    IN IF Dp = 0 \/ Jp = 0 \/ lrn = 0 \/ denom = 0 \/ pn = 0 THEN InfCost
       ELSE Quot(BWc * pd, denom * pn)

\* networkx.all_simple_paths(graph, src, targets): the simple paths that
\* go on from path and end at a target, those through the neighbours
\* NodeOrder[k..] of its last node, depth first
RECURSIVE all_simple_paths(_, _, _, _)
all_simple_paths(g, targets, path, k) ==
    IF k > Len(NodeOrder) THEN <<>>
    ELSE LET child == NodeOrder[k]
             last_node == path[Len(path)]
             seen == {path[i] : i \in 1..Len(path)}
             rest == all_simple_paths(g, targets, path, k + 1)
         IN IF <<last_node, child>> \notin DOMAIN g.edges \/ child \in seen
            THEN rest
            ELSE (IF child \in targets THEN <<Append(path, child)>>
                  ELSE <<>>)
                 \o all_simple_paths(g, targets, Append(path, child), 1)
                 \o rest

\* insort(ret, x, key=length) on costs
insort_cost(a, x) ==
    LET bslindex == Cardinality({i \in 1..Len(a) :
                                    CostLess(a[i].length, x.length)})
    IN SubSeq(a, 1, bslindex) \o <<x>> \o SubSeq(a, bslindex + 1, Len(a))

\* the for loop over the paths under ALL
RECURSIVE AllPaths(_, _, _, _, _)
AllPaths(g, c, paths, i, ret) ==
    IF i > Len(paths) THEN ret
    ELSE AllPaths(g, c, paths, i + 1,
                  insort_cost(ret, [path |-> paths[i],
                                    length |-> calc_cost(g, c, paths[i])]))

\* the for loop over the paths under BEST
RECURSIVE BestPath(_, _, _, _, _)
BestPath(g, c, paths, i, best) ==
    IF i > Len(paths) THEN best
    ELSE IF CostLess(calc_cost(g, c, paths[i]), best.length)
    THEN BestPath(g, c, paths, i + 1,
                  [path |-> paths[i], length |-> calc_cost(g, c, paths[i])])
    ELSE BestPath(g, c, paths, i + 1, best)

\* _LeastCostPathSelection.select(topo, targets, req, weight, strategy)
LeastCostPathSelection_select(g, targets, src, c, strategy) ==
    LET ids == {targets[i] : i \in 1..Len(targets)}
    IN IF strategy \in {"", ALL}
       THEN CHOOSE r \in {ListOf(AllPaths(g, c, paths, 1, <<>>)) :
                paths \in {all_simple_paths(g, ids, <<src>>, 1)}} : TRUE
       ELSE IF strategy = BEST
       THEN CHOOSE r \in {ListOf(<<BestPath(g, c, paths, 1,
                                            [length |-> InfCost])>>) :
                paths \in {all_simple_paths(g, ids, <<src>>, 1)}} : TRUE
       ELSE ListOf(<<>>)

\* the links the state updater may have measured: capacity, free
\* bandwidth, delay, jitter, and loss rate in LossUnit-ths
LinkProfiles ==
    {[capacity |-> 10, bandwidth |-> 8, delay |-> 1, jitter |-> 1,
      loss_rate |-> 0],
     [capacity |-> 10, bandwidth |-> 2, delay |-> 1, jitter |-> 1,
      loss_rate |-> 1],
     [capacity |-> 10, bandwidth |-> 3, delay |-> 0, jitter |-> 1,
      loss_rate |-> 0],
     [capacity |-> 4, bandwidth |-> 4, delay |-> 2, jitter |-> 2,
      loss_rate |-> 0]}

\* the Topology whose graph holds, for each cable laid, a Link in each
\* direction with the specs of its profile
MeasuredGraphOf(profile) ==
    LET g == GraphOf([e \in DOMAIN profile |-> profile[e].delay])
        cable(e) == IF e \in DOMAIN profile THEN e ELSE <<e[2], e[1]>>
    IN [g EXCEPT !.edges =
          [e \in DOMAIN g.edges |->
              [g.edges[e] EXCEPT !.specs =
                  profile[cable(e)] @@ g.edges[e].specs]]]

\* the least-cost selector is called on a topology that holds the source,
\* the switch and two hosts and any of the cables with any of the profiles
CostInit ==
    /\ now = 1
    /\ nodes = [n \in NodeIds |->
                  IF n = Sw THEN Node(TRUE, 1, 0, 0, 0, 0, 0, 0, None)
                  ELSE AddedNode(TRUE, <<>>, 4, 4)]
    /\ \E laid \in SUBSET Cables :
          \E profile \in [laid -> LinkProfiles] :
              topo = MeasuredGraphOf(profile)
    /\ links = {}
    /\ interfaces = <<>>
    /\ dps = {}
    /\ requests = <<>>
    /\ events = [k \in Keys |-> 0]
    /\ responses = [k \in Keys |-> 0]
    /\ tasks = [t \in 1..MaxTasks |-> FreeTask]
    /\ sspaths = {}
    /\ flows = {}
    /\ orchPaths = TRUE
    /\ PROTO_RETRIES = 1
    /\ nframes = 0
    /\ nenv = 0
    /\ hist = Idle("init")
    /\ obs = [run |-> 0, linksAt |-> {}, sent |-> {}, gaveUp |-> FALSE,
              stale |-> {}]
    /\ impl = "model"
    /\ tstate = TopologyState
    /\ last = NoCall
    /\ ncalls = 0
    /\ AppsIdle

\* PathSelector(LEASTCOST).select(topo, targets, req, COST, strategy)
SelectLeastCost(targets, c, strategy) ==
    /\ ncalls < MaxSelects
    /\ last' = [op |-> "PathSelector.select",
                 args |-> [src |-> Src, cos |-> c, strategy |-> strategy,
                           targets |-> targets, weight |-> "COST"],
                 ret |-> LeastCostPathSelection_select(topo, targets, Src, c,
                                                       strategy),
                 raised |-> FALSE]
    /\ ncalls' = ncalls + 1
    /\ UNCHANGED <<impl, topo, tstate, now, protoVars, appVars>>

CostNext ==
    \E targets \in TargetLists, c \in CosIds, strategy \in Strategies :
        SelectLeastCost(targets, c, strategy)

CostSpec == CostInit /\ [][CostNext]_vars

\* the bandwidth denominator Ct - (Bw + BWc) of a path
Denominator(g, c, path) ==
    MinCapacity(g, path) - (UsedOver(g, path) + cos_dict[c].min_bandwidth)

\* the cost formula of the path divides by zero
DividesByZero(g, c, path) ==
    \/ SumOver(g, path, "delay") = 0
    \/ SumOver(g, path, "jitter") = 0
    \/ Denominator(g, c, path) = 0

\* C31: PathSelector LEASTCOST gives cost +infinity to every simple path
\* whose cost formula divides by zero or whose bandwidth denominator is
\* negative: under ALL no such path stands before a path of finite cost,
\* and under BEST no such path is returned when a path of finite cost
\* exists
C31_BadPathsCostInfinity ==
    (last.op = "PathSelector.select" /\ last.args.weight = "COST") =>
        LET a == last.args
            r == last.ret.list
            bad(p) == \/ DividesByZero(topo, a.cos, p)
                      \/ Denominator(topo, a.cos, p) < 0
            every == all_simple_paths(topo,
                         {a.targets[i] : i \in 1..Len(a.targets)},
                         <<a.src>>, 1)
        IN IF a.strategy \in {"", ALL}
           THEN /\ \A i \in 1..Len(r) : bad(r[i].path) => r[i].length = InfCost
                /\ \A i, j \in 1..Len(r) :
                      i < j => ~(bad(r[i].path) /\ ~bad(r[j].path))
           ELSE IF a.strategy = BEST
           THEN (\E k \in 1..Len(every) : ~bad(every[k]))
                    => ("path" \in DOMAIN r[1] /\ ~bad(r[1].path))
           ELSE TRUE


\* ------------------------------------------------------------ the REST API
HTTP_SUCCESS == 200
HTTP_EXISTS == 303
HTTP_BAD_REQUEST == 400
HTTP_NOT_FOUND == 404
HTTP_INTERNAL == 500

\* what a REST call leaves: the topology, the state updater, the database,
\* the status of the answer and whether an exception left the handler
Answer(g, st, d, status) ==
    [topo |-> g, state |-> st, db |-> d, ret |-> status, raised |-> FALSE]
Uncaught(g, st, d) ==
    [topo |-> g, state |-> st, db |-> d, ret |-> HTTP_INTERNAL,
     raised |-> TRUE]

\* the bodies of POST /node: the id, whether it lists an interface, and
\* the place where it is malformed: not JSON, or the named field missing
\* or of the wrong type
NodeBodies ==
    [id : {"a", "d"}, interfaces : BOOLEAN,
     bad : {"none", "json", "id", "state", "type", "name"}]

\* RyuMainAPI.add_node: the body is validated into a queue of calls, then
\* the queue is run; its first call hands five arguments to
\* Topology.add_node of ryu_apps, which takes four
RyuMainAPI_add_node(g, st, d, body) ==
    IF body.bad \in {"json", "id"} THEN Answer(g, st, d, HTTP_BAD_REQUEST)
    ELSE IF Topology_get_node(g, body.id) # None
    THEN Answer(g, st, d, HTTP_EXISTS)
    ELSE IF body.bad \in {"state", "type"}
    THEN Answer(g, st, d, HTTP_BAD_REQUEST)
    ELSE IF body.interfaces /\ body.bad = "name"
    THEN Answer(g, st, d, HTTP_BAD_REQUEST)
    ELSE Uncaught(g, st, d)

\* the bodies of PUT /node_specs/{id}: the node specs it carries, the
\* interface it lists if any with the specs given for it, and the place
\* where it is malformed
SpecsBodies ==
    [fields : SUBSET {"cpu_free"}, interfaces : BOOLEAN,
     upd : {SpecsUpdate({}, 1), SpecsUpdate(BwFields, 2),
            SpecsUpdate({"tx_bytes"}, 1)},
     bad : {"none", "json", "name"}]

\* RyuMainAPI.update_node_specs, the loop over the interfaces of the body:
\* the specs of the listed interface are updated on the topology g1 that
\* the update of the node specs left
update_interfaces(g1, st, d, id, body) ==
    IF ~body.interfaces THEN Answer(g1, st, d, HTTP_SUCCESS)
    ELSE CHOOSE a \in {IF r.raised THEN Uncaught(r.topo, r.state, d)
                       ELSE Answer(r.topo, r.state, d, HTTP_SUCCESS) :
                          r \in {TopologyState_update_interface_specs(
                                     g1, st, id, "p1", body.upd, now)}} : TRUE

\* RyuMainAPI.update_node_specs
RyuMainAPI_update_node_specs(g, st, d, id, body) ==
    IF Topology_get_node(g, id) = None THEN Answer(g, st, d, HTTP_NOT_FOUND)
    ELSE IF body.bad = "json" \/ (body.interfaces /\ body.bad = "name")
    THEN Answer(g, st, d, HTTP_BAD_REQUEST)
    ELSE CHOOSE a \in {update_interfaces(g1, st, d, id, body) :
                          g1 \in {TopologyState_update_node_specs(
                                      g, id, SpecsUpdate(body.fields, 1),
                                      now).topo}} : TRUE

\* the attempts a body of POST /request may list: whether the required
\* fields of the attempt are well-formed, and the response it lists if
\* any, well-formed or not
AttemptRows == [ok : BOOLEAN, response : {"none", "ok", "bad"}]

\* the bodies of POST /request: whether the required fields of the request
\* are well-formed, whether there is an attempts list, and the list
RequestBodies ==
    [ok : BOOLEAN, listed : BOOLEAN,
     attempts : UNION {[1..n -> AttemptRows] : n \in 0..MaxRows}]

\* Model.insert(): the row is in its table
insert(d, table, row) == [d EXCEPT ![table] = @ \cup {row}]

\* the loop of RyuMainAPI.add_request over the attempts from the i-th on
RECURSIVE AddAttempts(_, _, _, _, _)
AddAttempts(g, st, d, attempts, i) ==
    IF i > Len(attempts) THEN Answer(g, st, d, HTTP_SUCCESS)
    ELSE IF ~attempts[i].ok THEN Answer(g, st, d, HTTP_BAD_REQUEST)
    ELSE LET d1 == insert(d, "attempts", <<"ip_s", "r1", i>>)
         IN IF attempts[i].response = "none"
            THEN AddAttempts(g, st, d1, attempts, i + 1)
            ELSE IF attempts[i].response = "bad"
            THEN Answer(g, st, d1, HTTP_BAD_REQUEST)
            ELSE AddAttempts(
                     g, st,
                     insert(insert(d1, "responses",
                                   <<"ip_s", "r1", i, "ip_h1">>),
                            "paths", <<"ip_s", "r1", i, "ip_h1">>),
                     attempts, i + 1)

\* RyuMainAPI.add_request
RyuMainAPI_add_request(g, st, d, body) ==
    IF ~body.ok THEN Answer(g, st, d, HTTP_BAD_REQUEST)
    ELSE LET d1 == insert(d, "requests", <<"ip_s", "r1">>)
         IN IF ~body.listed THEN Answer(g, st, d1, HTTP_BAD_REQUEST)
            ELSE AddAttempts(g, st, d1, body.attempts, 1)

\* the API is up on the built topology, no row in the database
RestInit ==
    /\ ProtocolInit
    /\ orchPaths \in BOOLEAN
    /\ PROTO_RETRIES = 1
    /\ impl = "app"
    /\ topo = Built
    /\ tstate = TopologyState
    /\ last = [NoCall EXCEPT !.ret = 0]
    /\ ncalls = 0
    /\ AppsIdle

\* a REST call is answered
Answered(op, args, r) ==
    /\ ncalls < MaxRest
    /\ topo' = r.topo
    /\ tstate' = r.state
    /\ db' = r.db
    /\ last' = [op |-> op, args |-> args, ret |-> r.ret, raised |-> r.raised]
    /\ ncalls' = ncalls + 1
    /\ UNCHANGED <<impl, now, protoVars, clients, switches, heard, due,
                   host_ports, waiters, net, outs, retrying>>

PostNode(body) ==
    Answered("POST /node", body, RyuMainAPI_add_node(topo, tstate, db, body))

PutNodeSpecs(id, body) ==
    Answered("PUT /node_specs", [id |-> id, body |-> body],
             RyuMainAPI_update_node_specs(topo, tstate, db, id, body))

PostRequest(body) ==
    Answered("POST /request", body,
             RyuMainAPI_add_request(topo, tstate, db, body))

RestNext ==
    \/ \E body \in NodeBodies : PostNode(body)
    \/ \E id \in {"b", "d"}, body \in SpecsBodies : PutNodeSpecs(id, body)
    \/ \E body \in RequestBodies : PostRequest(body)

RestSpec == RestInit /\ [][RestNext]_vars

\* C32: a REST call answered with 400 or 404 mutates nothing: the topology
\* graph, the node and interface specs and the stored request, attempt
\* and response records are after the call what they were before it
C32_RejectedCallMutatesNothing ==
    [][(/\ last'.op \in {"POST /node", "PUT /node_specs", "POST /request"}
        /\ last'.ret \in {HTTP_BAD_REQUEST, HTTP_NOT_FOUND})
       => (topo' = topo /\ tstate' = tstate /\ db' = db
           /\ requests' = requests)]_vars


\* ------------------------------------------------- port-add and link-add
\* the events that name the switch d, which is not in the graph yet: its
\* port p1 was added, a link from port p1 of a to port p1 of d was added
RetryEvents == {"port_add", "link_add"}

\* the one try of the handler: Topology.add_interface for a port-add,
\* Topology.add_link for a link-add
TryEvent(g, ev) ==
    IF ev = "port_add"
    THEN Topology_add_interface(g, "d", "p1", PortNum["p1"], None, None)
    ELSE Topology_add_link(g, "a", "d", "p1", "p1", FALSE)

\* _port_add_handler(ev, retry) / _link_add_handler(ev, retry) from its
\* call to its return or to its sleep(1): h is the handler as it stands
TryStep(ev, h) ==
    LET r == TryEvent(topo, ev)
        tried == [h EXCEPT !.at = Append(@, now)]
    IN /\ topo' = r.topo
       /\ retrying' =
             Put(retrying, ev,
                 IF r.ret = TRUE THEN [tried EXCEPT !.pc = "added"]
                 ELSE IF h.retry - 1 # 0
                 THEN [tried EXCEPT !.pc = "sleeping", !.retry = @ - 1,
                                    !.wake = now + 1]
                 ELSE [tried EXCEPT !.pc = "dropped", !.retry = @ - 1])
       /\ last' = [op |-> ev, args |-> <<h.retry>>, ret |-> r.ret,
                    raised |-> FALSE]

\* the event is dispatched to its handler, retry=3
EventAdd(ev) ==
    /\ ev \notin DOMAIN retrying
    /\ impl = "app"
    /\ TryStep(ev, [pc |-> "running", retry |-> 3, wake |-> 0, at |-> <<>>])
    /\ UNCHANGED <<impl, tstate, ncalls, now, protoVars, clients, switches,
                   heard, due, host_ports, waiters, net, outs, db>>

\* sleep(1) is over: the handler calls itself with the retries left
EventRetry(ev) ==
    /\ ev \in DOMAIN retrying
    /\ retrying[ev].pc = "sleeping"
    /\ retrying[ev].wake <= now
    /\ TryStep(ev, retrying[ev])
    /\ UNCHANGED <<impl, tstate, ncalls, now, protoVars, clients, switches,
                   heard, due, host_ports, waiters, net, outs, db>>

\* Topology._switch_enter_handler for the switch d and its port p1
RetrySwitchEnter ==
    /\ Topology_get_node(topo, "d") = None
    /\ topo' = Topology_add_interface(Topology_add_node(topo, "d").topo,
                                      "d", "p1", PortNum["p1"], None,
                                      None).topo
    /\ last' = [op |-> "switch_enter", args |-> <<"d">>, ret |-> TRUE,
                 raised |-> FALSE]
    /\ UNCHANGED <<impl, tstate, ncalls, now, protoVars, appVars>>

\* a second passes; a handler whose sleep is over runs first
RetryClock ==
    /\ now < MaxClock
    /\ \A ev \in DOMAIN retrying :
          retrying[ev].pc = "sleeping" => now < retrying[ev].wake
    /\ now' = now + 1
    /\ UNCHANGED <<topoVars, protoVars, appVars>>

RetryInit ==
    /\ ProtocolInit
    /\ ~orchPaths
    /\ PROTO_RETRIES = 1
    /\ impl = "app"
    /\ topo = Built
    /\ tstate = TopologyState
    /\ last = [NoCall EXCEPT !.ret = FALSE]
    /\ ncalls = 0
    /\ AppsIdle

RetryNext ==
    \/ \E ev \in RetryEvents : EventAdd(ev)
    \/ \E ev \in RetryEvents : EventRetry(ev)
    \/ RetrySwitchEnter
    \/ RetryClock

RetrySpec == RetryInit /\ [][RetryNext]_vars

\* C33: a port-add or link-add event that names an entity not yet in the
\* graph is retried up to 3 times after the first failed try, one second
\* after the try before: the event is dropped only after its first try and
\* 3 retries have failed, and an event that was added took at most that
\* many tries
C33_ThreeRetriesThenDropped ==
    \A ev \in DOMAIN retrying :
        /\ \A i \in 1..(Len(retrying[ev].at) - 1) :
              retrying[ev].at[i + 1] = retrying[ev].at[i] + 1
        /\ Len(retrying[ev].at) <= 1 + 3
        /\ retrying[ev].pc = "dropped" => Len(retrying[ev].at) = 1 + 3

\* the last step was taken by task t, which a reply of type RRES had woken
WokenByRRES(t) ==
    /\ tasks[t].pc = "wait"
    /\ tasks[t].woken
    /\ responses[<<tasks[t].key, tasks[t].mac>>] = RRES

\* another task than t is still running for Request k
OtherRunInProgress(t, k) ==
    \E u \in 1..MaxTasks :
        u # t /\ tasks[u].key = k /\ tasks[u].pc \in {"start", "wait"}

PromotionPending(k) ==
    /\ orchPaths
    /\ k \in DOMAIN requests
    /\ requests[k].state = HRES
    /\ \E t \in 1..MaxTasks : tasks[t].key = k /\ WokenByRRES(t)

InWeightOrder(tk) ==
    \A x \in 1..(tk.i - 1) :
        Len(tk.cands[x].path) <= Len(tk.cands[x + 1].path)

\* the candidates of task t are the selected hosts in the selector's order
InSelectorOrder(tk) ==
    /\ Len(tk.cands) = Len(tk.hosts)
    /\ \A x \in 1..Len(tk.cands) : tk.cands[x].node = tk.hosts[x]

C37_OneHRESPerAcceptedHREQ ==
    [][\A k \in DOMAIN requests :
          (/\ hist'.kind = "RRES"
           /\ nframes' = nframes + 1
           /\ hist'.pkt.req_id = k
           /\ OutOfType(RACK)' \cup OutOfType(HRES)' # {})
          => /\ requests[k].state = RREQ
             /\ requests'[k].state = HRES
             /\ \A x \in OutOfType(HRES)' :
                   /\ hist'.out[x].host = requests'[k].host_mac_ip
                   /\ \A a \in AttNos : <<HRES, a>> \notin obs.sent]_vars

\* the RRES branch cannot run to its end for Request r: the frame's
\* attempt_no has no Attempt, or the sender's mac is mapped to no node
CannotComplete(r, mac, att) ==
    \/ att \notin DOMAIN r.attempts
    \/ ~has_node(get_by_mac_node(mac))

\* C38: an RRES whose handling cannot complete leaves the Request as it was
\* before the frame, and an RRES moves a Request from RREQ to HRES only with
\* the chosen host recorded and the RACK and HRES frames sent.
C38_FailedRRESLeavesRREQ ==
    [][\A k \in DOMAIN requests :
          (/\ hist'.kind = "RRES"
           /\ nframes' = nframes + 1
           /\ hist'.pkt.req_id = k
           /\ requests[k].state = RREQ)
          => /\ CannotComplete(requests[k], hist'.mac, hist'.att) =>
                    requests'[k] = requests[k]
             /\ requests'[k].state = HRES =>
                    /\ requests'[k].host_mac_ip = hist'.mac
                    /\ OutOfType(RACK)' # {}
                    /\ OutOfType(HRES)' # {}]_vars

\* ------------------------------------------------------ flow commitment
\* The line of switches of the flow specification, now with a topology that
\* changes while placements are committed. A placement that the chosen host
\* accepted is committed by its task: flows along the path that was
\* computed when the run started, then the mark of the pair and the path
\* record.
NoCommit == [op |-> "none",
             args |-> [src |-> None, dst |-> None, path |-> <<>>],
             ret |-> <<>>, raised |-> FALSE]

CommitInit ==
    /\ ProtocolInit
    /\ orchPaths
    /\ PROTO_RETRIES = 1
    /\ impl = "app"
    /\ \E K \in 1..MaxLine :
          /\ topo = LineOf(K)
          /\ switches = {Line[k] : k \in 1..K}
    /\ tstate = TopologyState
    /\ last = NoCommit
    /\ ncalls = 0
    /\ clients = <<>>
    /\ heard = <<>>
    /\ due = [purge |-> 0, check |-> 0]
    /\ HostsIdle
    /\ ForwarderIdle

\* _select_host after _srp1 returned the RRES of the host at dst: the flows
\* are installed, and unless that raised the pair is marked and the path is
\* recorded on the Request
CommitFlows(src, dst) ==
    /\ ncalls < MaxInstalls
    /\ src # dst
    /\ LET K == Cardinality(switches)
           path == SwitchPath(K, src, dst)
           flow_info == [src_ip |-> "ip_" \o src, dst_ip |-> "ip_" \o dst,
                         in_port |-> PortNoOf(topo, "mac_" \o src),
                         src_mac |-> "mac_" \o src,
                         dst_mac |-> "mac_" \o dst]
           o == Protocol_install_flows(topo, switches, flows, path, flow_info)
           r == [Request(src) EXCEPT !.state = HRES,
                                     !.host_mac_ip = "mac_" \o dst,
                                     !.path = <<src>> \o path \o <<dst>>]
       IN /\ flows' = o.flows
          /\ sspaths' = IF o.raised THEN sspaths
                        ELSE sspaths \cup {<<"mac_" \o src, "mac_" \o dst>>}
          /\ requests' = IF o.raised THEN requests ELSE ("k1" :> r)
          /\ last' = [op |-> "select_host",
                       args |-> [src |-> src, dst |-> dst, path |-> path],
                       ret |-> o.sent, raised |-> o.raised]
    /\ ncalls' = ncalls + 1
    /\ UNCHANGED <<nodes, links, interfaces, dps, events, responses, tasks,
                   now, orchPaths, PROTO_RETRIES, nframes, nenv, hist, obs,
                   topo, impl, tstate, appVars>>

\* what a change of the topology leaves in the other variables
TopologyChanged(g) ==
    /\ nenv < MaxEnv
    /\ topo' = g
    /\ topo' # topo
    /\ nenv' = nenv + 1
    /\ last' = [NoCommit EXCEPT !.op = "topology"]
    /\ UNCHANGED <<nodes, links, interfaces, dps, requests, events,
                   responses, tasks, sspaths, flows, now, orchPaths,
                   PROTO_RETRIES, nframes, hist, obs, impl, tstate, ncalls,
                   appVars>>

\* _link_delete_handler: the link from one switch to the next one is gone
CommitLinkDelete(a, b) ==
    /\ <<a, b>> \in DOMAIN topo.edges
    /\ TopologyChanged(Topology_delete_link(topo, a, b).topo)

\* _check_clients: a host that stopped reporting is deleted, and with it
\* the entry of its mac, which held the switch port it was seen on
CommitHostDelete(h) ==
    TopologyChanged(Topology_delete_node(topo, h).topo)

CommitNext ==
    \/ \E src \in Ends, dst \in Ends : CommitFlows(src, dst)
    \/ \E a \in switches, b \in switches : CommitLinkDelete(a, b)
    \/ \E h \in Ends : CommitHostDelete(h)

CommitSpec == CommitInit /\ [][CommitNext]_vars

\* the switches that hold a flow each way between the two addresses
Covered(fl, S, H) ==
    {dp \in switches :
        /\ \E f \in fl : f.dp = dp /\ f.ipv4_src = S /\ f.ipv4_dst = H
        /\ \E f \in fl : f.dp = dp /\ f.ipv4_src = H /\ f.ipv4_dst = S}

\* C39: when a run has recorded a path on the Request and marked its pair
\* as managed, every switch of the path holds a rule each way; and a run
\* sends rules to every switch of its path or to none, also when a link or
\* the host's entry went away before the installation.
C39_FlowCommitAllOrNothing ==
    [][(ncalls' = ncalls + 1 /\ last'.op = "select_host") =>
          LET a == last'.args
              on == {a.path[i] : i \in 1..Len(a.path)}
              touched == {last'.ret[i].dp : i \in 1..Len(last'.ret)}
              pair == <<"mac_" \o a.src, "mac_" \o a.dst>>
          IN /\ touched \in {{}, on}
             /\ (/\ pair \in sspaths'
                 /\ "k1" \in DOMAIN requests'
                 /\ requests'["k1"].path = <<a.src>> \o a.path \o <<a.dst>>)
                => on \subseteq Covered(flows', "ip_" \o a.src,
                                        "ip_" \o a.dst)]_vars

\* C40: every hop (switch, next node) stored in a cached path of _outs is
\* an edge of the forwarder's graph _net, in every state that packet-in,
\* link-add, link-delete, switch-enter and switch-leave events lead to.
C40_CachedHopsAreEdges ==
    \A k \in DOMAIN outs :
        \A d \in DOMAIN outs[k] :
            <<d, outs[k][d].next>> \in DOMAIN net.edges

\* a link was deleted or a switch left while the cache held a path over
\* the two switches, and the cache still holds such a path afterwards
C40_Witness ==
    /\ last.op \in {"link_delete", "switch_leave"}
    /\ \E k \in DOMAIN outs :
          /\ DOMAIN outs[k] = Datapaths
          /\ \E d \in Datapaths : outs[k][d].next \in Datapaths

====
